---- MODULE Spec2Model ----
(***************************************************************************)
(* A model of mcp-conductor's sandboxed execution core:                    *)
(*   - the Execution Engine (RunCode.run, installDependencies,             *)
(*     executeInSubprocess) with its two-phase dependency install,         *)
(*   - the Permission Broker (PermissionBuilder),                          *)
(*   - the RPC Bridge (MCPRPCServer.handleRPCRequest) in front of the      *)
(*     Tool-Proxy Manager's dispatch methods,                              *)
(*   - the Dependency Allowlist Validator (validateDependencies).          *)
(*                                                                         *)
(* Strings the code inspects character by character (server names,         *)
(* package specifiers) are sequences of one-character strings.  Strings    *)
(* the code only tests with includes/startsWith on fixed markers (output   *)
(* lines, error messages) are sequences of tokens.                         *)
(***************************************************************************)
EXTENDS Integers, Sequences, FiniteSets, TLC

VARIABLES
  \* ---- Execution Engine: one run() call ----
  pc,              \* position of run()
  options,         \* the ExecutionOptions of the call
  defaultRunArgs,  \* RunCode.defaultRunArgs (operator configuration)
  runArgs,         \* run(): the launch flags resolved for phase 2
  fs,              \* temp directories that currently exist on disk
  installProc,     \* phase-1 subprocess: "none" | "running" | "exited"
  installCode,     \* phase-1 exit code (-1 while unknown)
  installTimer,    \* phase-1 timer: "unset" | "armed" | "fired" | "cleared"
  installArgs,     \* args the phase-1 subprocess was launched with
  installResult,   \* what installDependencies returned
  process,         \* phase-2 subprocess: "none" | "running" | "exited"
  exitCode,        \* phase-2 exit code (-1 while unknown)
  timer,           \* phase-2 timer: "unset" | "armed" | "fired" | "cleared"
  execArgs,        \* args the phase-2 subprocess was launched with
  success,         \* executeInSubprocess: let success
  errorType,       \* executeInSubprocess: let errorType
  stdoutPipe,      \* lines the subprocess wrote to stdout
  stderrPipe,      \* lines the subprocess wrote to stderr
  stdoutRead,      \* readStream(stdout): "idle" | "reading" | "done" | "failed"
  stderrRead,      \* readStream(stderr): "idle" | "reading" | "done" | "failed"
  execResult,      \* what executeInSubprocess returned
  result,          \* what run() returned
  mcpFactoryCode,  \* RunCode.mcpFactoryCode (the empty text when null)
  diskWrites,      \* the script files written to disk so far: path, content
  \* ---- RPC Bridge and Tool-Proxy Manager ----
  authToken,       \* MCPRPCServer.authToken
  clients,         \* MCPManager.clients: server name -> entry
  bpc,             \* position of handleRPCRequest
  request,         \* the HTTP request being handled
  managerCalls,    \* Manager methods invoked while handling the request
  response,        \* the HTTP response written
  received,        \* getRequestBody: how many 'data' events have been handled
  totalSize,       \* getRequestBody: let totalSize
  bodyParts,       \* getRequestBody: the sizes of the chunks pushed to bodyParts
  \* ---- Tool-Proxy Manager: initialize / reloadIfNeeded ----
  configFile,      \* the config file on disk
  config,          \* MCPManager.config
  configHash,      \* MCPManager.configHash
  mpc,             \* position of the Manager operation in progress
  op,              \* the operation in progress or last finished
  epoch,           \* how many times the server map has been rebuilt
  attempts,        \* initializeClient per server name: pending/connected/done
  outcomes,        \* what each server did to its connection attempt
  connections,     \* the open connections to tool servers
  edits,           \* how many times the config file was edited
  initOutcome,     \* how the last initialize() ended
  lastDispatch,    \* the last dispatch method call and how it ended
  remoteCalls,     \* the calls made on remote clients
  \* ---- Dependency Allowlist Validator ----
  vpc,             \* "start" before validateDependencies, "done" after
  dependencies,    \* the requested specifiers
  allowedList,     \* the allowlist: the wildcard (true) or a list of entries
  validation,      \* what validateDependencies returned
  \* ---- Output capture ----
  cpc,             \* "start" before the output is processed, "done" after
  writes,          \* what the user program wrote, in the order it wrote it
  finalExpr,       \* the value of the user program's final expression
  captured,        \* what executeInSubprocess made of it
  \* ---- Call timeout ----
  tpc,             \* "call" before the timer is armed, "armed" after
  serverConfig,    \* the operator's defaultTimeout and maxTimeout
  requested,       \* the timeout the request carries, if any
  timeout,         \* the timeout run() arms the timer with
  \* ---- Permission Broker, alone ----
  ppc,             \* "new" before build is called, "built" after
  permSpec,        \* the spec the builder was made with
  flags,           \* what build returned
  \* ---- Tool-Proxy Manager, concurrent calls ----
  sharedFile,      \* the config file's content
  rewrites,        \* how many times it was rewritten
  storedHash,      \* this.configHash
  loadedConfig,    \* this.config
  serverMap,       \* this.clients
  opened,          \* every connection ever opened: "open" or "closed"
  callers,         \* where each reloadIfNeeded call stands
  localClient,     \* the client each call's initializeClient has connected
  returned,        \* what each reloadIfNeeded call returned
  bridgeCall       \* the outcome of the Bridge's callTool

engineVars ==
  << pc, options, defaultRunArgs, runArgs, fs, installProc, installCode,
     installTimer, installArgs, installResult, process, exitCode, timer,
     execArgs, success, errorType, stdoutPipe, stderrPipe, stdoutRead,
     stderrRead, execResult, result, mcpFactoryCode, diskWrites >>

scriptVars == << mcpFactoryCode, diskWrites >>

readVars == << received, totalSize, bodyParts >>

bridgeVars == << authToken, clients, bpc, request, managerCalls, response, readVars >>

validatorVars == << vpc, dependencies, allowedList, validation >>

managerVars ==
  << configFile, config, configHash, mpc, op, epoch, attempts, outcomes,
     connections, edits, initOutcome, lastDispatch, remoteCalls >>

captureVars == << cpc, writes, finalExpr, captured >>

timeoutVars == << tpc, serverConfig, requested, timeout >>

brokerVars == << ppc, permSpec, flags >>

overlapVars ==
  << sharedFile, rewrites, storedHash, loadedConfig, serverMap, opened, callers,
     localClient, returned, bridgeCall >>

\* The subsystems checked on their own, beside the four above.
sideVars == << captureVars, timeoutVars, brokerVars, overlapVars >>

vars == << engineVars, bridgeVars, managerVars, validatorVars, sideVars >>

\* What each subsystem's operations leave alone.
notEngineVars == << bridgeVars, managerVars, validatorVars, sideVars >>
notBridgeVars == << engineVars, managerVars, validatorVars, sideVars >>
notValidatorVars == << engineVars, bridgeVars, managerVars, sideVars >>
notManagerVars ==
  << engineVars, validatorVars, sideVars, authToken, bpc, request, managerCalls,
     response, readVars >>
statefulVars == << engineVars, bridgeVars, managerVars, validatorVars >>
notCaptureVars == << statefulVars, timeoutVars, brokerVars, overlapVars >>
notTimeoutVars == << statefulVars, captureVars, brokerVars, overlapVars >>
notBrokerVars == << statefulVars, captureVars, timeoutVars, overlapVars >>
notOverlapVars == << statefulVars, captureVars, timeoutVars, brokerVars >>

\* ------------------------------------------------------------------ bounds

\* How many lines the phase-2 subprocess writes at most, both streams together.
MaxLines == 2

\* ------------------------------------------------------------------ helpers

Range(s) == { s[i] : i \in 1..Len(s) }

RECURSIVE SeqFilter(_, _)
\* Array.prototype.filter with the predicate "is a member of keep".
SeqFilter(s, keep) ==
  IF s = << >> THEN << >>
  ELSE IF Head(s) \in keep THEN << Head(s) >> \o SeqFilter(Tail(s), keep)
       ELSE SeqFilter(Tail(s), keep)

\* ------------------------------------------------------- Permission Broker

\* A field of a DenoPermissions object.  t is the JavaScript shape of the
\* value: "undef" (key absent), "bool", "array", or "other" (a number, a
\* string, an object: anything that is neither boolean nor array).
Undef == [t |-> "undef", b |-> FALSE, items |-> << >>]
Bool(v) == [t |-> "bool", b |-> v, items |-> << >>]
Arr(xs) == [t |-> "array", b |-> FALSE, items |-> xs]
Other == [t |-> "other", b |-> FALSE, items |-> << >>]

\* An array element: a string s, or (isString = FALSE) some non-string.
Str(s) == [isString |-> TRUE, s |-> s]
NonStr == [isString |-> FALSE, s |-> ""]

PermFields == {"all", "net", "read", "write", "env", "run", "ffi", "hrtime"}
ArrayPerms == {"net", "read", "write", "env", "run", "ffi"}

NoPerms == [f \in PermFields |-> Undef]

\* Object.keys(permissions).length > 0
HasKeys(perms) == \E f \in PermFields : perms[f].t # "undef"

\* JavaScript truthiness of a field value (if (perms.all)).
Truthy(v) == (v.t = "bool" /\ v.b) \/ v.t = "array" \/ v.t = "other"

\* A launch flag "--allow-x" (values empty) or "--allow-x=v1,v2" (values the
\* comma-joined list).
Flag(name, values) == [name |-> name, values |-> values]
Bare(name) == Flag(name, << >>)

\* A flag for every array, the empty one included.
FlagForAnyArray(perms, f) ==
  LET v == perms[f]
      name == "--allow-" \o f
  IN IF v.t = "bool" /\ v.b THEN << Bare(name) >>
     ELSE IF v.t = "array"
          THEN << Flag(name, [i \in 1..Len(v.items) |-> v.items[i].s]) >>
          ELSE << >>

\* The flag build() emits for one capability: value === true gives the bare
\* flag, a non-empty array the flag with its values, anything else nothing.
FlagFor(perms, f) ==
  LET v == perms[f]
      name == "--allow-" \o f
  IN IF v.t = "bool" /\ v.b THEN << Bare(name) >>
     ELSE IF v.t = "array" /\ Len(v.items) > 0
          THEN << Flag(name, [i \in 1..Len(v.items) |-> v.items[i].s]) >>
          ELSE << >>

\* A build that puts the all-capabilities flag in front of the other flags.
buildAllMerged(perms) ==
  (IF Truthy(perms["all"]) THEN << Bare("--allow-all") >> ELSE << >>)
    \o FlagFor(perms, "net") \o FlagFor(perms, "read") \o FlagFor(perms, "write")
    \o FlagFor(perms, "env") \o FlagFor(perms, "run") \o FlagFor(perms, "ffi")
    \o (IF perms["hrtime"].t = "bool" /\ perms["hrtime"].b
        THEN << Bare("--allow-hrtime") >> ELSE << >>)

\* PermissionBuilder.build
build(perms) ==
  IF Truthy(perms["all"]) THEN << Bare("--allow-all") >>
  ELSE FlagFor(perms, "net") \o FlagFor(perms, "read") \o FlagFor(perms, "write")
       \o FlagFor(perms, "env") \o FlagFor(perms, "run") \o FlagFor(perms, "ffi")
       \o (IF perms["hrtime"].t = "bool" /\ perms["hrtime"].b
           THEN << Bare("--allow-hrtime") >> ELSE << >>)

\* PermissionBuilder.validate: TRUE when it returns, FALSE when it throws.
validate(perms) ==
  /\ \A f \in ArrayPerms :
       LET v == perms[f]
       IN v.t \notin {"undef", "bool"} =>
            /\ v.t = "array"
            /\ \A i \in 1..Len(v.items) : v.items[i].isString
  /\ perms["hrtime"].t \in {"undef", "bool"}
  /\ perms["all"].t \in {"undef", "bool"}

\* ------------------------------------------------- the sandbox's capabilities

\* The temp directories of one call, as Deno.makeTempDir names them under the
\* system temp directory.
TmpRoot == "/tmp"
DepsDir == "/tmp/mcp-deno-deps-1"
ScriptDir == "/tmp/mcp-run-deno-1"
ImportMapFile == "/tmp/mcp-deno-deps-1/import_map.json"
InstallScript == "/tmp/mcp-deno-deps-1/install.ts"
ScriptFile == "/tmp/mcp-run-deno-1/script.ts"

\* The directories a path lies in (itself included, when it is a directory).
Ancestors(path) ==
  CASE path = DepsDir -> {"/", TmpRoot, DepsDir}
    [] path = ScriptDir -> {"/", TmpRoot, ScriptDir}
    [] path = TmpRoot -> {"/", TmpRoot}
    [] OTHER -> {"/", path}

\* What a launch grants: a capability is granted over path by the
\* all-capabilities flag, by its bare flag, or by its flag naming a directory
\* the path lies in.
Grants(args, cap, path) ==
  \E i \in 1..Len(args) :
    \/ args[i].name \in {"--allow-all", "-A"}
    \/ /\ args[i].name = "--allow-" \o cap
       /\ \/ args[i].values = << >>
          \/ \E j \in 1..Len(args[i].values) : args[i].values[j] \in Ancestors(path)

\* The capabilities a launch grants at all (over some path or target).
Capabilities(args) ==
  { cap \in {"net", "read", "write", "env", "run", "ffi", "hrtime"} :
      \E i \in 1..Len(args) :
        args[i].name \in {"--allow-all", "-A", "--allow-" \o cap} }


\* ------------------------------------------------------- Execution Engine

NoPromptFlag == Bare("--no-prompt")

\* Default run arguments taken as they are.
defaultArgsUnfiltered(args) == args

\* run, line 168: this.defaultRunArgs.filter((arg) => arg !== noPromptFlag)
defaultArgs(args) == SeqFilter(args, Range(args) \ {NoPromptFlag})

\* The permission specs a call may carry.
EnginePerms ==
  { NoPerms,
    [NoPerms EXCEPT !["write"] = Bool(TRUE)],
    [NoPerms EXCEPT !["write"] = Bool(FALSE)],
    [NoPerms EXCEPT !["write"] = Arr(<< Str(TmpRoot) >>)],
    [NoPerms EXCEPT !["read"] = Arr(<< Str("./node_modules") >>), !["net"] = Bool(TRUE)],
    [NoPerms EXCEPT !["all"] = Bool(TRUE)],
    [NoPerms EXCEPT !["write"] = Other] }

\* The operator's default run arguments (MCP_CONDUCTOR_RUN_ARGS).
EngineDefaultArgs ==
  { << >>,
    << NoPromptFlag, Flag("--allow-read", << "/workspace" >>),
       Flag("--allow-write", << "/workspace" >>) >>,
    << Bare("--allow-write") >> }

\* The dependency lists a call may carry.
\* The specifiers, as character sequences: npm:a and npm:a:$
PlainDep == << "n", "p", "m", ":", "a" >>
MetacharDep == << "n", "p", "m", ":", "a", ":", "$" >>
EngineDependencies == { << >>, << PlainDep >>, << MetacharDep >> }

ExitCodes == {0, 1, 143}

\* Output lines, as sequences of tokens.
Marker == "__MCP_RETURN_VALUE__:"
StdoutLines == { << "hello" >>, << Marker, "42" >> }
StderrLines == { << "warn" >>, << "error: ", "SyntaxError", ": bad" >>, << "NotCapable" >> }

SyntaxMarkers == {"could not be parsed", "Unexpected token", "SyntaxError", "Parse error"}
PermissionMarkers == {"NotCapable", "Requires", "PermissionDenied", "--allow-"}

\* String.prototype.includes for a marker, on a token sequence.
Includes(text, markers) == \E i \in 1..Len(text) : text[i] \in markers

\* String.prototype.startsWith for a marker.
StartsWith(line, marker) == Len(line) > 0 /\ line[1] = marker

RECURSIVE Join(_, _)
\* Array.prototype.join
Join(lines, sep) ==
  IF lines = << >> THEN << >>
  ELSE IF Len(lines) = 1 THEN Head(lines)
       ELSE Head(lines) \o << sep >> \o Join(Tail(lines), sep)

Null == [null |-> TRUE, v |-> << >>]
Value(v) == [null |-> FALSE, v |-> v]

RECURSIVE OutputOf(_)
\* executeInSubprocess: the stdout lines that do not carry the marker.
OutputOf(lines) ==
  IF lines = << >> THEN << >>
  ELSE IF StartsWith(Head(lines), Marker) THEN OutputOf(Tail(lines))
       ELSE << Head(lines) >> \o OutputOf(Tail(lines))

RECURSIVE ReturnValueOf(_, _)
\* executeInSubprocess: the last marker line's text after the marker.
ReturnValueOf(lines, acc) ==
  IF lines = << >> THEN acc
  ELSE IF StartsWith(Head(lines), Marker)
       THEN ReturnValueOf(Tail(lines), Value(Tail(Head(lines))))
       ELSE ReturnValueOf(Tail(lines), acc)

\* A classification that tests the capability-denied markers first.
ClassifyPermissionFirst(error) ==
  IF Includes(error, PermissionMarkers) THEN "permission"
  ELSE IF Includes(error, SyntaxMarkers) THEN "syntax"
       ELSE "runtime"

\* executeInSubprocess: the error kind of a non-zero exit, from the message.
Classify(error) ==
  IF Includes(error, SyntaxMarkers) THEN "syntax"
  ELSE IF Includes(error, PermissionMarkers) THEN "permission"
       ELSE "runtime"

\* executeInSubprocess: the message of a non-zero exit.
ErrorMessage(stderrData, code) ==
  IF Join(stderrData, "\n") # << >> THEN Join(stderrData, "\n")
  ELSE << "Process exited with code ", ToString(code) >>

\* The args installDependencies launches phase 1 with.
InstallArgs ==
  << Bare("run"), NoPromptFlag, Bare("--allow-read"), Bare("--allow-write"),
     Bare("--allow-net"), Bare("--import-map"), Bare(ImportMapFile),
     Bare(InstallScript) >>

\* The args executeInSubprocess launches phase 2 with.
ExecArgs(permissionFlags, importMapFile) ==
  << Bare("run") >> \o permissionFlags
    \o (IF importMapFile # "" THEN << Bare("--import-map"), Bare(importMapFile) >>
        ELSE << >>)
    \o << Bare(ScriptFile) >>

\* A status check that takes every exit code for success.
InstallSucceededAnyCode(code) == code = code

\* installDependencies: the status check after the subprocess has ended.
InstallSucceeded(code) == code = 0

InstallFailure == [success |-> FALSE, importMapFile |-> "", depsDir |-> ""]
InstallSuccess == [success |-> TRUE, importMapFile |-> ImportMapFile, depsDir |-> DepsDir]
NoInstall == [success |-> TRUE, importMapFile |-> "", depsDir |-> ""]

\* deleteTempFile: the directory of a file path.
DirOf(path) ==
  CASE path = ScriptFile -> ScriptDir
    [] path = ImportMapFile -> DepsDir
    [] OTHER -> path

\* run(): the finally block's removals.
Cleanup(dirs, tempFile, importMapFile, depsDir) ==
  dirs \ ( {DirOf(tempFile)}
           \cup (IF importMapFile # "" THEN {DirOf(importMapFile)} ELSE {})
           \cup (IF depsDir # "" THEN {depsDir} ELSE {}) )

\* run(): the error result of the outer catch and of a failed install.
RuntimeError == [status |-> "error", errorType |-> "runtime", output |-> << >>,
                 returnValue |-> Null]

\* run(): the result built from what executeInSubprocess returned.
RunResultOf(r) ==
  IF r.success
  THEN [status |-> "success", errorType |-> "", output |-> r.output,
        returnValue |-> r.returnValue]
  ELSE [status |-> "error", errorType |-> r.errorType, output |-> r.output,
        returnValue |-> Null]

NoExec == [success |-> FALSE, output |-> << >>, returnValue |-> Null,
           errorType |-> "none"]
NoResult == [status |-> "none", errorType |-> "", output |-> << >>,
             returnValue |-> Null]

\* The port the RPC Bridge listens on.
RpcPort == "49152"

NoFactory == << >>

\* generateMcpFactoryCode: the source text of the factory injected into user
\* scripts, as tokens; the port and the bearer token are embedded literally.
generateMcpFactoryCode(rpcPort, token) ==
  << "async function mcpRpcCall(rpcUrl, authToken, request) {...}",
     "const mcpFactory = {",
     "_rpcUrl: 'http://localhost:", rpcPort, "/mcp-rpc',",
     "_authToken: '", token, "',",
     "async load(serverName) {...} }" >>

\* The user code of the call.
UserCode == << "return 1" >>

\* wrapCode: the script text, with the factory text in front when one is set.
wrapCode(code, factory) ==
  << "// MCP Run Deno" >>
    \o (IF factory # NoFactory
        THEN << "try {" >> \o factory \o << "} catch (e) {...}" >>
        ELSE << >>)
    \o code

\* main, lines 101-150: the factory is generated and set when the Manager
\* lists at least one server, and is left null otherwise.
EngineInit ==
  /\ pc = "start"
  /\ mcpFactoryCode \in {NoFactory, generateMcpFactoryCode(RpcPort, authToken)}
  /\ diskWrites = {}
  /\ options \in [permissions : EnginePerms, dependencies : EngineDependencies]
  /\ defaultRunArgs \in EngineDefaultArgs
  /\ runArgs = << >>
  /\ fs = {}
  /\ installProc = "none" /\ installCode = -1 /\ installTimer = "unset"
  /\ installArgs = << >> /\ installResult = NoInstall
  /\ process = "none" /\ exitCode = -1 /\ timer = "unset"
  /\ execArgs = << >> /\ success = TRUE /\ errorType = "runtime"
  /\ stdoutPipe = << >> /\ stderrPipe = << >>
  /\ stdoutRead = "idle" /\ stderrRead = "idle"
  /\ execResult = NoExec
  /\ result = NoResult

installVars == << installProc, installCode, installTimer, installArgs, installResult >>
execVars == << process, exitCode, timer, execArgs, success, errorType, stdoutPipe,
               stderrPipe, stdoutRead, stderrRead, execResult >>

\* run(), lines 149-175: validate the permission spec and resolve the launch
\* flags; a throw of validate is caught by run's outer catch.
ResolvePermissions ==
  /\ pc = "start"
  /\ IF HasKeys(options.permissions) /\ ~validate(options.permissions)
     THEN /\ result' = RuntimeError
          /\ pc' = "done"
          /\ UNCHANGED runArgs
     ELSE /\ runArgs' =
               IF HasKeys(options.permissions)
               THEN << NoPromptFlag >> \o build(options.permissions)
               ELSE << NoPromptFlag >> \o defaultArgs(defaultRunArgs)
          /\ pc' = IF Len(options.dependencies) > 0 THEN "install" ELSE "write"
          /\ UNCHANGED result
  /\ UNCHANGED << options, defaultRunArgs, scriptVars, fs, installVars, execVars >>
  /\ UNCHANGED notEngineVars

\* installDependencies, lines 455-481: make the cache directory and write the
\* import map and the install script; any throw is caught and reported as a
\* failed install.
InstallPrepare(mkOk, writeOk) ==
  /\ pc = "install"
  /\ fs' = IF mkOk THEN fs \cup {DepsDir} ELSE fs
  /\ IF mkOk /\ writeOk
     THEN pc' = "install_spawn" /\ UNCHANGED installResult
     ELSE pc' = "install_return" /\ installResult' = InstallFailure
  /\ UNCHANGED << options, defaultRunArgs, scriptVars, runArgs, installProc, installCode,
                  installTimer, installArgs, execVars, result >>
  /\ UNCHANGED notEngineVars

\* installDependencies, lines 484-505: spawn phase 1 and arm its timer.
InstallSpawn(spawnOk) ==
  /\ pc = "install_spawn"
  /\ IF spawnOk
     THEN /\ installProc' = "running"
          /\ installTimer' = "armed"
          /\ installArgs' = InstallArgs
          /\ pc' = "install_wait"
          /\ UNCHANGED installResult
     ELSE /\ installResult' = InstallFailure
          /\ pc' = "install_return"
          /\ UNCHANGED << installProc, installTimer, installArgs >>
  /\ UNCHANGED << options, defaultRunArgs, scriptVars, runArgs, fs, installCode, execVars, result >>
  /\ UNCHANGED notEngineVars

\* installDependencies, lines 503-505: the timer's callback signals phase 1.
InstallTimerFire ==
  /\ pc # "crashed"
  /\ installTimer = "armed"
  /\ installProc = "running"
  /\ installTimer' = "fired"
  /\ UNCHANGED << pc, options, defaultRunArgs, scriptVars, runArgs, fs, installProc, installCode,
                  installArgs, installResult, execVars, result >>
  /\ UNCHANGED notEngineVars

\* installDependencies, line 504: process.kill on a child whose status has
\* already resolved throws inside the timer's callback; nothing catches it and
\* the host stops.  The catch of lines 532-538 does not clear the timer, so it
\* may fire after installDependencies, and run(), have returned.
InstallTimerKillThrows ==
  /\ pc # "crashed"
  /\ installTimer = "armed"
  /\ installProc = "exited"
  /\ installTimer' = "fired"
  /\ pc' = "crashed"
  /\ UNCHANGED << options, defaultRunArgs, scriptVars, runArgs, fs, installProc, installCode,
                  installArgs, installResult, execVars, result >>
  /\ UNCHANGED notEngineVars

\* The phase-1 subprocess ends, by itself or on the signal; after a failed
\* stream read nothing awaits it any more.
InstallExit(code) ==
  /\ pc # "crashed"
  /\ installProc = "running"
  /\ installProc' = "exited"
  /\ installCode' = code
  /\ UNCHANGED << pc, options, defaultRunArgs, scriptVars, runArgs, fs, installTimer,
                  installArgs, installResult, execVars, result >>
  /\ UNCHANGED notEngineVars

\* installDependencies, lines 507-511 and 532-538: a stream read rejects, the
\* Promise.all rejects and the catch reports a failed install.
InstallReadFail ==
  /\ pc = "install_wait"
  /\ installResult' = InstallFailure
  /\ pc' = "install_return"
  /\ UNCHANGED << options, defaultRunArgs, scriptVars, runArgs, fs, installProc, installCode,
                  installTimer, installArgs, execVars, result >>
  /\ UNCHANGED notEngineVars

\* installDependencies, lines 507-531: streams drained and status known.
InstallJoin ==
  /\ pc = "install_wait"
  /\ installProc = "exited"
  /\ installTimer' = IF installTimer = "armed" THEN "cleared" ELSE installTimer
  /\ installResult' = IF InstallSucceeded(installCode) THEN InstallSuccess
                      ELSE InstallFailure
  /\ pc' = "install_return"
  /\ UNCHANGED << options, defaultRunArgs, scriptVars, runArgs, fs, installProc, installCode,
                  installArgs, execVars, result >>
  /\ UNCHANGED notEngineVars

\* run(), lines 191-206: a failed install returns the error result at once.
RunAfterInstall ==
  /\ pc = "install_return"
  /\ IF installResult.success
     THEN pc' = "write" /\ UNCHANGED result
     ELSE pc' = "done" /\ result' = RuntimeError
  /\ UNCHANGED << options, defaultRunArgs, scriptVars, runArgs, fs, installVars, execVars >>
  /\ UNCHANGED notEngineVars


\* writeTempFile, called at run() line 220 outside the inner try: make the
\* script directory and write the wrapped script; a throw of either reaches
\* run's outer catch.
WriteTempFile(mkOk, writeOk) ==
  /\ pc = "write"
  /\ fs' = IF mkOk THEN fs \cup {ScriptDir} ELSE fs
  /\ diskWrites' =
       IF mkOk /\ writeOk
       THEN diskWrites \cup {[path |-> ScriptFile,
                              content |-> wrapCode(UserCode, mcpFactoryCode)]}
       ELSE diskWrites
  /\ IF mkOk /\ writeOk
     THEN pc' = "spawn" /\ UNCHANGED result
     ELSE pc' = "done" /\ result' = RuntimeError
  /\ UNCHANGED << options, defaultRunArgs, mcpFactoryCode, runArgs, installVars, execVars >>
  /\ UNCHANGED notEngineVars

\* executeInSubprocess, lines 559-588: spawn phase 2 and arm the deadline
\* timer.  A throw of spawn leaves executeInSubprocess, runs run's finally and
\* reaches run's outer catch.
ExecSpawn(spawnOk) ==
  /\ pc = "spawn"
  /\ IF spawnOk
     THEN /\ execArgs' = ExecArgs(runArgs, installResult.importMapFile)
          /\ process' = "running"
          /\ timer' = "armed"
          /\ success' = TRUE
          /\ errorType' = "runtime"
          /\ stdoutRead' = "reading"
          /\ stderrRead' = "reading"
          /\ pc' = "exec_wait"
          /\ UNCHANGED << fs, result >>
     ELSE /\ fs' = Cleanup(fs, ScriptFile, installResult.importMapFile,
                           installResult.depsDir)
          /\ result' = RuntimeError
          /\ pc' = "done"
          /\ UNCHANGED << execArgs, process, timer, success, errorType,
                          stdoutRead, stderrRead >>
  /\ UNCHANGED << options, defaultRunArgs, scriptVars, runArgs, installVars, exitCode,
                  stdoutPipe, stderrPipe, execResult >>
  /\ UNCHANGED notEngineVars

\* executeInSubprocess, lines 583-588: the deadline timer's callback, with the
\* child still running.
TimerFire ==
  /\ timer = "armed"
  /\ process = "running"
  /\ timer' = "fired"
  /\ success' = FALSE
  /\ errorType' = "timeout"
  /\ UNCHANGED << pc, options, defaultRunArgs, scriptVars, runArgs, fs, installVars, process,
                  exitCode, execArgs, stdoutPipe, stderrPipe, stdoutRead,
                  stderrRead, execResult, result >>
  /\ UNCHANGED notEngineVars

\* executeInSubprocess, line 584: process.kill on a child whose status has
\* already resolved throws before the callback's assignments; nothing catches
\* it and the host stops with the call unanswered.
TimerKillThrows ==
  /\ pc = "exec_wait"
  /\ timer = "armed"
  /\ process = "exited"
  /\ timer' = "fired"
  /\ pc' = "crashed"
  /\ UNCHANGED << options, defaultRunArgs, scriptVars, runArgs, fs, installVars, process,
                  exitCode, execArgs, success, errorType, stdoutPipe, stderrPipe,
                  stdoutRead, stderrRead, execResult, result >>
  /\ UNCHANGED notEngineVars

\* The phase-2 subprocess writes a line to stdout.
ProcWriteStdout(line) ==
  /\ pc = "exec_wait"
  /\ process = "running"
  /\ Len(stdoutPipe) + Len(stderrPipe) < MaxLines
  /\ stdoutPipe' = Append(stdoutPipe, line)
  /\ UNCHANGED << pc, options, defaultRunArgs, scriptVars, runArgs, fs, installVars, process,
                  exitCode, timer, execArgs, success, errorType, stderrPipe,
                  stdoutRead, stderrRead, execResult, result >>
  /\ UNCHANGED notEngineVars

\* The phase-2 subprocess writes a line to stderr.
ProcWriteStderr(line) ==
  /\ pc = "exec_wait"
  /\ process = "running"
  /\ Len(stdoutPipe) + Len(stderrPipe) < MaxLines
  /\ stderrPipe' = Append(stderrPipe, line)
  /\ UNCHANGED << pc, options, defaultRunArgs, scriptVars, runArgs, fs, installVars, process,
                  exitCode, timer, execArgs, success, errorType, stdoutPipe,
                  stdoutRead, stderrRead, execResult, result >>
  /\ UNCHANGED notEngineVars

\* The operations the claim names, by the capability each needs.
GuardedOperations == {"read", "net", "env", "run"}

\* What the runtime prints for an uncaught capability denial.
DenialLine(cap) ==
  << "error: Uncaught (in promise) ", "NotCapable", ": ", "Requires", " ", cap,
     " access, run again with the ", "--allow-", cap, " flag" >>

\* The lines of captured stderr that are capability denials.
Denials(lines) ==
  { i \in 1..Len(lines) : \E cap \in GuardedOperations : lines[i] = DenialLine(cap) }

\* The script attempts an operation while the launch grants no capability:
\* the runtime, launched with --no-prompt, denies it and reports the denial
\* on stderr.
ProcDenied(cap) ==
  /\ pc = "exec_wait"
  /\ process = "running"
  /\ Capabilities(execArgs) = {}
  /\ Len(stdoutPipe) + Len(stderrPipe) < MaxLines
  /\ stderrPipe' = Append(stderrPipe, DenialLine(cap))
  /\ UNCHANGED << pc, options, defaultRunArgs, scriptVars, runArgs, fs, installVars, process,
                  exitCode, timer, execArgs, success, errorType, stdoutPipe,
                  stdoutRead, stderrRead, execResult, result >>
  /\ UNCHANGED notEngineVars

\* The phase-2 subprocess ends, by itself or on the signal; process.status
\* resolves.
ProcExit(code) ==
  /\ pc = "exec_wait"
  /\ process = "running"
  /\ process' = "exited"
  /\ exitCode' = code
  /\ UNCHANGED << pc, options, defaultRunArgs, scriptVars, runArgs, fs, installVars, timer,
                  execArgs, success, errorType, stdoutPipe, stderrPipe,
                  stdoutRead, stderrRead, execResult, result >>
  /\ UNCHANGED notEngineVars

\* readStream, lines 664-696: the stdout read loop sees the end of the stream.
StdoutDone ==
  /\ pc = "exec_wait"
  /\ process = "exited"
  /\ stdoutRead = "reading"
  /\ stdoutRead' = "done"
  /\ UNCHANGED << pc, options, defaultRunArgs, scriptVars, runArgs, fs, installVars, process,
                  exitCode, timer, execArgs, success, errorType, stdoutPipe,
                  stderrPipe, stderrRead, execResult, result >>
  /\ UNCHANGED notEngineVars

\* readStream, lines 664-696: the stderr read loop sees the end of the stream.
StderrDone ==
  /\ pc = "exec_wait"
  /\ process = "exited"
  /\ stderrRead = "reading"
  /\ stderrRead' = "done"
  /\ UNCHANGED << pc, options, defaultRunArgs, scriptVars, runArgs, fs, installVars, process,
                  exitCode, timer, execArgs, success, errorType, stdoutPipe,
                  stderrPipe, stdoutRead, execResult, result >>
  /\ UNCHANGED notEngineVars

\* executeInSubprocess, lines 649-658: what the catch returns.
CatchResult == [success |-> FALSE, output |-> << >>, returnValue |-> Null,
                errorType |-> "runtime"]

\* readStream's reader.read() rejects on stdout or stderr: the Promise.all
\* rejects and executeInSubprocess's catch clears the timer and returns.
StreamFail ==
  /\ pc = "exec_wait"
  /\ stdoutRead = "reading" \/ stderrRead = "reading"
  /\ \/ stdoutRead = "reading" /\ stdoutRead' = "failed" /\ UNCHANGED stderrRead
     \/ stderrRead = "reading" /\ stderrRead' = "failed" /\ UNCHANGED stdoutRead
  /\ timer' = IF timer = "armed" THEN "cleared" ELSE timer
  /\ execResult' = CatchResult
  /\ pc' = "exec_return"
  /\ UNCHANGED << options, defaultRunArgs, scriptVars, runArgs, fs, installVars, process,
                  exitCode, execArgs, success, errorType, stdoutPipe, stderrPipe,
                  result >>
  /\ UNCHANGED notEngineVars

\* executeInSubprocess, lines 597-648: what is returned once both streams are
\* drained and the status is known.
JoinResult(ok, kind, stdoutData, stderrData, code) ==
  IF code # 0 /\ ok
  THEN [success |-> FALSE,
        output |-> OutputOf(stdoutData) \o stderrData,
        returnValue |-> ReturnValueOf(stdoutData, Null),
        errorType |-> Classify(ErrorMessage(stderrData, code))]
  ELSE [success |-> ok,
        output |-> OutputOf(stdoutData) \o stderrData,
        returnValue |-> ReturnValueOf(stdoutData, Null),
        errorType |-> kind]

\* executeInSubprocess, lines 597-648: the Promise.all resolves.
ExecJoin ==
  /\ pc = "exec_wait"
  /\ process = "exited" /\ stdoutRead = "done" /\ stderrRead = "done"
  /\ timer' = IF timer = "armed" THEN "cleared" ELSE timer
  /\ execResult' = JoinResult(success, errorType, stdoutPipe, stderrPipe, exitCode)
  /\ pc' = "exec_return"
  /\ UNCHANGED << options, defaultRunArgs, scriptVars, runArgs, fs, installVars, process,
                  exitCode, execArgs, success, errorType, stdoutPipe, stderrPipe,
                  stdoutRead, stderrRead, result >>
  /\ UNCHANGED notEngineVars

\* run(), lines 233-264: build the result; the finally block removes the
\* script directory and, after a successful install, the cache directory.
RunReturn ==
  /\ pc = "exec_return"
  /\ result' = RunResultOf(execResult)
  /\ fs' = Cleanup(fs, ScriptFile, installResult.importMapFile, installResult.depsDir)
  /\ pc' = "done"
  /\ UNCHANGED << options, defaultRunArgs, scriptVars, runArgs, installVars, execVars >>
  /\ UNCHANGED notEngineVars

\* run() at its call of executeInSubprocess, for a call without permissions
\* and dependencies under empty default run arguments: the script is written
\* and nothing is spawned yet.
ExecInit ==
  /\ pc = "spawn"
  /\ mcpFactoryCode = NoFactory
  /\ diskWrites = {[path |-> ScriptFile, content |-> wrapCode(UserCode, NoFactory)]}
  /\ options = [permissions |-> NoPerms, dependencies |-> << >>]
  /\ defaultRunArgs = << >>
  /\ runArgs = << NoPromptFlag >>
  /\ fs = {ScriptDir}
  /\ installProc = "none" /\ installCode = -1 /\ installTimer = "unset"
  /\ installArgs = << >> /\ installResult = NoInstall
  /\ process = "none" /\ exitCode = -1 /\ timer = "unset"
  /\ execArgs = << >> /\ success = TRUE /\ errorType = "runtime"
  /\ stdoutPipe = << >> /\ stderrPipe = << >>
  /\ stdoutRead = "idle" /\ stderrRead = "idle"
  /\ execResult = NoExec
  /\ result = NoResult

\* The steps of the host in phase 2: they run when the event loop reaches
\* them.
HostStep ==
  \/ \E spawnOk \in BOOLEAN : ExecSpawn(spawnOk)
  \/ TimerFire
  \/ TimerKillThrows
  \/ ExecJoin
  \/ RunReturn

\* The steps of the subprocess and of its streams: when they happen is up to
\* the subprocess and to whatever holds the pipes.
ChildStep ==
  \/ \E line \in StdoutLines : ProcWriteStdout(line)
  \/ \E line \in StderrLines : ProcWriteStderr(line)
  \/ \E cap \in GuardedOperations : ProcDenied(cap)
  \/ \E code \in ExitCodes : ProcExit(code)
  \/ StdoutDone
  \/ StderrDone
  \/ StreamFail

ExecNext == HostStep \/ ChildStep

\* ------------------------------------------------------- Output capture

\* How many writes the script makes, both streams together.
MaxWrites == 3

\* What one write puts on a stream, as tokens ("\n" ends a line): a logged
\* line, text written without a newline, a blank line, the marker line the
\* wrapper prints for the return value.
WriteTexts ==
  { << "hello", "\n" >>, << "warn", "\n" >>, << "part" >>, << " ", "\n" >>,
    << Marker, "42", "\n" >> }

ScriptWrites == [stream : {"stdout", "stderr"}, text : WriteTexts]
WriteSeqs == UNION { [1..n -> ScriptWrites] : n \in 0..MaxWrites }

\* The chunks a stream's reader yields: the texts written to that stream.
RECURSIVE ChunksOf(_, _)
ChunksOf(ws, stream) ==
  IF ws = << >> THEN << >>
  ELSE IF Head(ws).stream = stream
       THEN << Head(ws).text >> \o ChunksOf(Tail(ws), stream)
       ELSE ChunksOf(Tail(ws), stream)

\* String.prototype.split('\n'): the pieces between the newlines, the piece
\* after the last newline included.
RECURSIVE SplitLines(_, _)
SplitLines(text, piece) ==
  IF text = << >> THEN << piece >>
  ELSE IF Head(text) = "\n" THEN << piece >> \o SplitLines(Tail(text), << >>)
       ELSE SplitLines(Tail(text), Append(piece, Head(text)))

\* line.trim() is non-empty.
NonBlank(line) == \E i \in 1..Len(line) : line[i] \notin {" ", "\t"}

\* readStream, lines 679-681 and 686-688: the lines pushed.
KeepLine(line) == NonBlank(line)

RECURSIVE KeptLines(_)
KeptLines(pieces) ==
  IF pieces = << >> THEN << >>
  ELSE IF KeepLine(Head(pieces)) THEN << Head(pieces) >> \o KeptLines(Tail(pieces))
       ELSE KeptLines(Tail(pieces))

\* readStream: the read loop over the chunks, with its carry buffer, and the
\* remaining buffer after the last chunk.
RECURSIVE readStream(_, _)
readStream(chunks, buffer) ==
  IF chunks = << >> THEN KeptLines(<< buffer >>)
  ELSE LET newLines == SplitLines(buffer \o Head(chunks), << >>)
       IN KeptLines(SubSeq(newLines, 1, Len(newLines) - 1))
            \o readStream(Tail(chunks), newLines[Len(newLines)])

NoCapture ==
  [stdoutData |-> << >>, stderrData |-> << >>, output |-> << >>,
   returnValue |-> Null]

\* The value of the user program's final expression: undefined, or a value
\* whose JSON text is Serialized.
Undefined == "undefined"
Serialized == "7"
FinalValues == {Undefined, Serialized}

\* wrapCode, the script's last statement: when the result is not undefined
\* the marker line with its JSON text is logged to stdout.
WrapperWrites(final) ==
  IF final # Undefined
  THEN << [stream |-> "stdout", text |-> << Marker, final, "\n" >>] >>
  ELSE << >>

\* Everything the script writes: the user program's writes, then the
\* wrapper's.
Emitted(ws, final) == ws \o WrapperWrites(final)

\* executeInSubprocess, lines 597-620: both streams are read to their end and
\* the lines are sorted into output and return value.
Captured(ws) ==
  LET stdoutData == readStream(ChunksOf(ws, "stdout"), << >>)
      stderrData == readStream(ChunksOf(ws, "stderr"), << >>)
  IN [stdoutData |-> stdoutData, stderrData |-> stderrData,
      output |-> OutputOf(stdoutData) \o stderrData,
      returnValue |-> ReturnValueOf(stdoutData, Null)]

CaptureInit ==
  /\ cpc = "start"
  /\ writes \in WriteSeqs
  /\ finalExpr \in FinalValues
  /\ captured = NoCapture

\* No script has run.
CaptureIdle ==
  /\ cpc = "idle"
  /\ writes = << >>
  /\ finalExpr = Undefined
  /\ captured = NoCapture

\* executeInSubprocess, lines 597-620, for a script whose user program wrote
\* `writes` and ended in `finalExpr`.
ProcessOutput ==
  /\ cpc = "start"
  /\ captured' = Captured(Emitted(writes, finalExpr))
  /\ cpc' = "done"
  /\ UNCHANGED << writes, finalExpr >>
  /\ UNCHANGED notCaptureVars

CaptureNext == ProcessOutput

\* ------------------------------------------------------------ Call timeout

\* RunCode's own fields, milliseconds.
EngineDefaultTimeout == 30000
EngineMaxTimeout == 300000

\* The request carries no timeout.
NoTimeout == [given |-> FALSE, ms |-> 0]

Given(ms) == [given |-> TRUE, ms |-> ms]

\* What the operator configures (parseTimeout keeps positive integers) and
\* what a request asks for, milliseconds.
ConfiguredDefaults == {10000, 30000, 60000}
ConfiguredMaxima == {30000, 60000, 300000, 600000}
RequestedTimeouts ==
  {NoTimeout} \cup { Given(ms) : ms \in {5000, 45000, 100000, 400000, 700000} }

ServerConfigs == [defaultTimeout : ConfiguredDefaults, maxTimeout : ConfiguredMaxima]

Min(a, b) == IF a <= b THEN a ELSE b

\* a ?? b
Coalesce(a, b) == IF a.given THEN a ELSE Given(b)

\* RunCode.run, lines 144-147.
RunTimeout(optionsTimeout) ==
  Min(Coalesce(optionsTimeout, EngineDefaultTimeout).ms, EngineMaxTimeout)

\* The run_deno_code handler's call of run: the timeout option it passes.
HandlerTimeout(finalConfig, asked) == Coalesce(asked, finalConfig.defaultTimeout)

TimeoutInit ==
  /\ tpc = "call"
  /\ serverConfig \in ServerConfigs
  /\ requested \in RequestedTimeouts
  /\ timeout = 0

\* No call is being made.
TimeoutIdle ==
  /\ tpc = "idle"
  /\ serverConfig = [defaultTimeout |-> EngineDefaultTimeout, maxTimeout |-> EngineMaxTimeout]
  /\ requested = NoTimeout
  /\ timeout = 0

\* The run_deno_code handler up to the timer being armed with `timeout`.
ApplyTimeout ==
  /\ tpc = "call"
  /\ timeout' = RunTimeout(HandlerTimeout(serverConfig, requested))
  /\ tpc' = "armed"
  /\ UNCHANGED << serverConfig, requested >>
  /\ UNCHANGED notTimeoutVars

TimeoutNext == ApplyTimeout

\* ------------------------------------------------- Permission Broker, alone

\* The values a spec's fields take when build is called on its own.
AllValues == {Undef, Bool(TRUE), Bool(FALSE)}
ListValues ==
  {Undef, Bool(TRUE), Bool(FALSE), Arr(<< >>), Arr(<< Str("a") >>),
   Arr(<< Str("a"), Str("b") >>)}
BuildSpecs ==
  { [f \in PermFields |->
       IF f = "all" THEN a
       ELSE IF f = "hrtime" THEN h
       ELSE IF f \in {"net", "read"} THEN l[1]
       ELSE IF f \in {"write", "env"} THEN l[2]
       ELSE l[3]] :
    a \in AllValues, h \in {Undef, Bool(TRUE)}, l \in [1..3 -> ListValues] }

BrokerInit ==
  /\ ppc = "new"
  /\ permSpec \in BuildSpecs
  /\ flags = << >>

\* No builder exists.
BrokerIdle ==
  /\ ppc = "idle"
  /\ permSpec = NoPerms
  /\ flags = << >>

\* new PermissionBuilder(permSpec).build()
Build ==
  /\ ppc = "new"
  /\ flags' = build(permSpec)
  /\ ppc' = "built"
  /\ UNCHANGED permSpec
  /\ UNCHANGED notBrokerVars

BrokerNext == Build

\* ------------------------------------------------------------- RPC Bridge

\* How long a server name in a request may be, in characters.
MaxNameLen == 2

\* MCP_PROXY_CONSTANTS.RPC.MAX_BODY_SIZE, scaled down: the ceiling on a
\* request body, in size units.
MAX_BODY_SIZE == 2

\* In how many chunks a request body may arrive.
MaxChunks == 3

Lower == {"a", "b", "c", "d", "e", "f", "g", "h", "i", "j", "k", "l", "m",
          "n", "o", "p", "q", "r", "s", "t", "u", "v", "w", "x", "y", "z"}
Upper == {"A", "B", "C", "D", "E", "F", "G", "H", "I", "J", "K", "L", "M",
          "N", "O", "P", "Q", "R", "S", "T", "U", "V", "W", "X", "Y", "Z"}
Digits == {"0", "1", "2", "3", "4", "5", "6", "7", "8", "9"}

\* The class [a-zA-Z0-9_-]
NameChars == Lower \cup Upper \cup Digits \cup {"_", "-"}

\* The pattern without its anchors: /[a-zA-Z0-9_-]+/
isValidServerNameUnanchored(serverName) ==
  \E i \in 1..Len(serverName) : serverName[i] \in NameChars

\* MCPRPCServer.isValidServerName: /^[a-zA-Z0-9_-]+$/
isValidServerName(serverName) ==
  /\ Len(serverName) >= 1
  /\ \A i \in 1..Len(serverName) : serverName[i] \in NameChars

\* The characters a request's server name is drawn from.
NameAlphabet == {"a", "-", "/", ";"}
ServerNames == UNION { [1..n -> NameAlphabet] : n \in 0..MaxNameLen }

Tokens == {"t1", "t2"}

\* An Authorization header as the pieces of its text; << >> is no header.
BearerOf(token) == << "Bearer ", token >>
AuthHeaders ==
  { << >> } \cup { BearerOf(t) : t \in Tokens }
            \cup { << "bearer ", t >> : t \in Tokens }
            \cup { << t >> : t \in Tokens }
            \cup { << "Bearer ", t, " " >> : t \in Tokens }

\* An authentication check that looks at the scheme and not at the token.
AuthorizedAnyBearer(authHeader, token) ==
  Len(authHeader) >= 2 /\ authHeader[1] = "Bearer " /\ token = token

\* handleRPCRequest, line 62: the header is the bearer form of the token.
Authorized(authHeader, token) == authHeader = BearerOf(token)

\* The methods handleRPCRequest's switch dispatches.
BridgeMethods == {"callTool", "listTools", "listResources", "readResource",
                  "listPrompts", "getPrompt"}
RequestMethods == BridgeMethods \cup {"listServers", "bogus"}

\* The method enum of the MCPRPCRequest type.
MCPRPCRequestMethods ==
  {"listServers", "callTool", "listTools", "listResources", "listPrompts",
   "readResource", "getPrompt"}

\* The methods of the object mcpFactory.load returns.
StubMethods == {"callTool", "listTools", "listResources", "readResource",
                "listPrompts", "getPrompt"}

\* args of a request: an array of some length, or not an array.
RequestArgs == [isArray : BOOLEAN, len : 0..2] \ [isArray : {FALSE}, len : 1..2]

\* A request body once read: not JSON, the JSON null, or a request object.
Bodies ==
  [kind : {"malformed", "null"}, server : {<< >>},
   method : {""}, args : {[isArray |-> TRUE, len |-> 0]}]
  \cup [kind : {"object"}, server : ServerNames, method : RequestMethods,
        args : RequestArgs]

\* validateRPCArgs: "" when it returns, the error code when it throws.
validateRPCArgs(args, expectedLength) ==
  IF ~args.isArray THEN "INVALID_ARGS"
  ELSE IF args.len < expectedLength THEN "INVALID_ARGS_LENGTH"
       ELSE ""

\* The minimum argument count handleRPCRequest asks of each method.
MinArgs(method) ==
  CASE method = "callTool" -> 2
    [] method = "readResource" -> 1
    [] method = "getPrompt" -> 2
    [] OTHER -> 0

\* A check of the entry's presence alone.
validateServerExistsPresenceOnly(map, serverName) ==
  IF serverName \notin DOMAIN map THEN "SERVER_NOT_FOUND" ELSE ""

\* validateServerExists: "" when it returns, the error code when it throws.
validateServerExists(map, serverName) ==
  IF serverName \notin DOMAIN map THEN "SERVER_NOT_FOUND"
  ELSE IF map[serverName].error # "" THEN "SERVER_CONNECT_FAILED"
       ELSE ""

\* MCPManager.getClientSafe: "" when it returns a client, else what it throws.
getClientSafe(map, serverName) ==
  IF validateServerExists(map, serverName) # ""
  THEN validateServerExists(map, serverName)
  ELSE IF ~map[serverName].client THEN "CLIENT_NOT_AVAILABLE"
       ELSE ""

\* A Manager dispatch method up to its remote call: "" when the entry passes,
\* else the error it throws.  callTool, readResource and getPrompt go through
\* getClientSafe, the list methods through validateEntry.
ManagerCheck(map, method, serverName) ==
  IF method \in {"callTool", "readResource", "getPrompt"}
  THEN getClientSafe(map, serverName)
  ELSE validateServerExists(map, serverName)

\* What a tool server answers to listTools, listResources and listPrompts.
ServerTools == << "tool1" >>
ServerResources == << "res1" >>
ServerPrompts == << "prompt1" >>

\* initializeClient, lines 79-86: the entry before the attempt (error "" is
\* the null error, client FALSE the null client).
NewEntry ==
  [client |-> FALSE, tools |-> << >>, resources |-> << >>, prompts |-> << >>,
   error |-> ""]

\* A catch block that logs the failure and does not record it.
FailedEntryUnrecorded(message) == [NewEntry EXCEPT !.error = ""]

\* initializeClient, lines 137-140: the entry after a failed attempt.
FailedEntryOf(message) == [NewEntry EXCEPT !.error = message]

\* initializeClient, lines 115-132: the entry after a successful attempt; a
\* throw of listResources or listPrompts leaves that catalog empty.
ConnectedEntryOf(resOk, promptsOk) ==
  [client |-> TRUE, tools |-> ServerTools,
   resources |-> IF resOk THEN ServerResources ELSE << >>,
   prompts |-> IF promptsOk THEN ServerPrompts ELSE << >>,
   error |-> ""]

ConnectedEntry == ConnectedEntryOf(TRUE, TRUE)
FailedEntry == FailedEntryOf("spawn failed")

\* The server maps the Manager may hold.
ManagerMaps ==
  { << >>,
    (<< "a" >> :> ConnectedEntry) @@ (<< "a", "-" >> :> FailedEntry) }

Reply(status, hasResult, error) ==
  [status |-> status, hasResult |-> hasResult, error |-> error]
NoReply == Reply(0, FALSE, "")

\* handleRPCRequest, lines 72-78 and 138-145: what is thrown to the outer
\* catch before the dispatch ("" when nothing is).
BridgeReject(body) ==
  IF body.kind = "malformed" THEN "Unexpected token"
  ELSE IF body.kind = "null" THEN "Cannot read properties of null"
  ELSE IF ~isValidServerName(body.server) THEN "Invalid server name"
  ELSE ""

\* handleRPCRequest, lines 84-128: what the inner try catches before any
\* Manager method is invoked ("" when the method is invoked).
DispatchReject(body) ==
  IF body.method \notin BridgeMethods THEN "Unknown method"
  ELSE validateRPCArgs(body.args, MinArgs(body.method))

\* The sizes of the chunks a request body arrives in.
ChunkSizes == 1..(MAX_BODY_SIZE + 1)
ChunkSeqs == UNION { [1..n -> ChunkSizes] : n \in 0..MaxChunks }

\* A body that arrives in one chunk.
OneChunk == << 1 >>

\* The request object of a well-formed callTool.
CallBody ==
  [kind |-> "object", server |-> << "a" >>, method |-> "callTool",
   args |-> [isArray |-> TRUE, len |-> 2]]

\* The requests that arrive: every header and body in one small chunk, and
\* the well-formed call under every header in every sequence of chunks.
Requests ==
  [authHeader : AuthHeaders, body : Bodies, chunks : {OneChunk}]
    \cup [authHeader : AuthHeaders, body : {CallBody}, chunks : ChunkSeqs]

NoRequest ==
  [authHeader |-> << >>, body |-> CHOOSE b \in Bodies : b.kind = "null",
   chunks |-> << >>]

\* A reader that accepts a body of any size.
ExceedsCeilingNever(size) == size < 0

\* getRequestBody, line 161: the cumulative size is over the ceiling.
ExceedsCeiling(size) == size > MAX_BODY_SIZE

BridgeInit ==
  /\ authToken \in Tokens
  /\ clients \in ManagerMaps
  /\ bpc = "idle"
  /\ request = NoRequest
  /\ received = 0 /\ totalSize = 0 /\ bodyParts = << >>
  /\ managerCalls = << >>
  /\ response = NoReply

\* http.createServer's handler, lines 26-28: a POST to /mcp-rpc arrives.
BridgeReceive ==
  /\ bpc = "idle"
  /\ request' \in Requests
  /\ managerCalls' = << >>
  /\ response' = NoReply
  /\ received' = 0 /\ totalSize' = 0 /\ bodyParts' = << >>
  /\ bpc' = "auth"
  /\ UNCHANGED << authToken, clients >>
  /\ UNCHANGED notBridgeVars

\* handleRPCRequest, lines 60-67: the authentication check.
BridgeAuth ==
  /\ bpc = "auth"
  /\ IF Authorized(request.authHeader, authToken)
     THEN bpc' = "read" /\ UNCHANGED response
     ELSE bpc' = "responded" /\ response' = Reply(401, FALSE, "Unauthorized")
  /\ UNCHANGED << authToken, clients, request, managerCalls, readVars >>
  /\ UNCHANGED notBridgeVars

\* getRequestBody, lines 158-168: a 'data' event.  Over the ceiling the
\* request stream is destroyed (no further event arrives) and the promise
\* rejects into handleRPCRequest's outer catch; otherwise the chunk is kept.
BridgeData ==
  /\ bpc = "read"
  /\ received < Len(request.chunks)
  /\ received' = received + 1
  /\ totalSize' = totalSize + request.chunks[received + 1]
  /\ IF ExceedsCeiling(totalSize + request.chunks[received + 1])
     THEN /\ response' = Reply(500, FALSE, "Request body too large")
          /\ bpc' = "responded"
          /\ UNCHANGED bodyParts
     ELSE /\ bodyParts' = Append(bodyParts, request.chunks[received + 1])
          /\ UNCHANGED << bpc, response >>
  /\ UNCHANGED << authToken, clients, request, managerCalls >>
  /\ UNCHANGED notBridgeVars

\* getRequestBody, lines 169-172: the 'end' event resolves the body.
BridgeEnd ==
  /\ bpc = "read"
  /\ received = Len(request.chunks)
  /\ bpc' = "body"
  /\ UNCHANGED << authToken, clients, request, managerCalls, response, readVars >>
  /\ UNCHANGED notBridgeVars

\* handleRPCRequest, lines 72-128: the body has arrived; parse it, check the
\* server name, and enter the switch up to the Manager method's invocation.
BridgeDispatch ==
  /\ bpc = "body"
  /\ LET body == request.body IN
     IF BridgeReject(body) # ""
     THEN /\ response' = Reply(500, FALSE, BridgeReject(body))
          /\ bpc' = "responded"
          /\ UNCHANGED managerCalls
     ELSE IF DispatchReject(body) # ""
     THEN /\ response' = Reply(200, FALSE, DispatchReject(body))
          /\ bpc' = "responded"
          /\ UNCHANGED managerCalls
     ELSE /\ managerCalls' = Append(managerCalls,
                                    [method |-> body.method, server |-> body.server])
          /\ bpc' = "await"
          /\ UNCHANGED response
  /\ UNCHANGED << authToken, clients, request, readVars >>
  /\ UNCHANGED notBridgeVars

\* handleRPCRequest, lines 126-137: the Manager method settles (it throws on
\* an unknown or failed entry, and its remote call succeeds or fails).
BridgeRespond(remoteOk) ==
  /\ bpc = "await"
  /\ LET body == request.body
         thrown == ManagerCheck(clients, body.method, body.server)
     IN response' =
          IF thrown # "" THEN Reply(200, FALSE, thrown)
          ELSE IF body.method \in {"callTool", "readResource", "getPrompt"} /\ ~remoteOk
               THEN Reply(200, FALSE, "remote call failed")
               ELSE Reply(200, TRUE, "")
  /\ bpc' = "responded"
  /\ UNCHANGED << authToken, clients, request, managerCalls, readVars >>
  /\ UNCHANGED notBridgeVars

BridgeNext ==
  \/ BridgeReceive
  \/ BridgeAuth
  \/ BridgeData
  \/ BridgeEnd
  \/ BridgeDispatch
  \/ \E remoteOk \in BOOLEAN : BridgeRespond(remoteOk)


\* ------------------------------------------------------ Tool-Proxy Manager

\* How many times the config file is edited while the Manager runs.
MaxEdits == 1

\* How many times reloadIfNeeded rebuilds the server map.
MaxReloads == 1

\* The server names of the config files.
SrvA == << "a" >>
SrvB == << "a", "-" >>
ManagerNames == {SrvA, SrvB}

\* One entry of mcpServers.  command and url are "absent" (no such key),
\* "empty" (the key with a falsy value) or "set"; args is the truthiness of
\* the args key; object is FALSE for an entry that is not an object at all.
ServerEntry(command, url, args, disabled) ==
  [object |-> TRUE, command |-> command, url |-> url, args |-> args,
   disabled |-> disabled]

Stdio == ServerEntry("set", "absent", TRUE, FALSE)
Sse == ServerEntry("absent", "set", FALSE, FALSE)
DisabledStdio == ServerEntry("set", "absent", TRUE, TRUE)
Neither == ServerEntry("absent", "absent", FALSE, FALSE)
Both == ServerEntry("set", "set", TRUE, FALSE)
EmptyCommand == ServerEntry("empty", "absent", TRUE, FALSE)
NotObject == [ServerEntry("absent", "absent", FALSE, FALSE) EXCEPT !.object = FALSE]

\* The config file: not there, not a JSON object with an mcpServers object,
\* or a JSON object whose mcpServers maps names to entries.
NotFound == [kind |-> "notfound", servers |-> << >>]
Malformed == [kind |-> "malformed", servers |-> << >>]
JsonFile(servers) == [kind |-> "json", servers |-> servers]

ConfigFiles ==
  { NotFound, Malformed,
    JsonFile(<< >>),
    JsonFile(SrvA :> Stdio),
    JsonFile(SrvB :> Sse),
    JsonFile((SrvA :> Stdio) @@ (SrvB :> Sse)),
    JsonFile((SrvA :> Stdio) @@ (SrvB :> DisabledStdio)),
    JsonFile((SrvA :> Stdio) @@ (SrvB :> Neither)),
    JsonFile((SrvA :> Stdio) @@ (SrvB :> Both)),
    JsonFile((SrvA :> EmptyCommand) @@ (SrvB :> Sse)),
    JsonFile((SrvA :> Stdio) @@ (SrvB :> NotObject)) }

NullConfig == [isNull |-> TRUE, servers |-> << >>]

\* loadConfig: null when the file is missing or is not a config object.
loadConfig(file) ==
  IF file.kind = "json" THEN [isNull |-> FALSE, servers |-> file.servers]
  ELSE NullConfig

NullHash == [isNull |-> TRUE, of |-> NotFound]

\* calculateConfigHash: the SHA-256 of the file's content, null when the file
\* is missing.  Two contents have the same hash exactly when they are equal.
calculateConfigHash(file) ==
  IF file.kind = "notfound" THEN NullHash ELSE [isNull |-> FALSE, of |-> file]

\* validateConfig, lines 67-86: the errors pushed for the entries, as
\* (name, what) pairs.
ConfigErrors(cfg) ==
  { e \in (DOMAIN cfg.servers) \X {"neither", "both", "no args"} :
      LET entry == cfg.servers[e[1]]
          hasCommand == entry.command # "absent"
          hasUrl == entry.url # "absent"
      IN \/ e[2] = "neither" /\ ~hasCommand /\ ~hasUrl
         \/ e[2] = "both" /\ hasCommand /\ hasUrl
         \/ e[2] = "no args" /\ hasCommand /\ ~entry.args }

\* validateConfig: the `in` operator throws a TypeError on an entry that is
\* not an object; otherwise valid is "no errors".
validateConfig(cfg) ==
  IF \E n \in DOMAIN cfg.servers : ~cfg.servers[n].object
  THEN [threw |-> TRUE, valid |-> FALSE, errors |-> {}]
  ELSE [threw |-> FALSE, valid |-> ConfigErrors(cfg) = {}, errors |-> ConfigErrors(cfg)]

\* initialize, lines 61-63: the names of the entries that are not disabled.
EnabledNames(cfg) == { n \in DOMAIN cfg.servers : ~cfg.servers[n].disabled }

\* initializeClient, lines 98-108: whether the entry gives a transport.
HasTransport(entry) == entry.command = "set" \/ entry.url = "set"

\* A join that resumes as soon as one attempt has settled.
AnySettled(state, names) == names = {} \/ \E n \in names : state[n] = "done"

\* initialize, lines 67-69: the Promise.all over the connection attempts.
AllSettled(state, names) == \A n \in names : state[n] = "done"

NoAttempts == [n \in ManagerNames |-> "none"]
NoDispatch ==
  [method |-> "", server |-> << >>, known |-> FALSE, entryError |-> "",
   outcome |-> "", remote |-> FALSE]

\* The Manager's dispatch methods.
DispatchMethods == BridgeMethods \cup {"getToolDetails"}
ClientMethods == {"callTool", "readResource", "getPrompt"}

\* The server names a dispatch may carry: the configured ones and another.
DispatchNames == ManagerNames \cup { << "-" >> }

ManagerInit ==
  /\ configFile \in ConfigFiles
  /\ config = NullConfig
  /\ configHash = NullHash
  /\ mpc = "new"
  /\ op = "none"
  /\ epoch = 0
  /\ attempts = NoAttempts
  /\ outcomes = NoAttempts
  /\ connections = {}
  /\ edits = 0
  /\ initOutcome = "none"
  /\ lastDispatch = NoDispatch
  /\ remoteCalls = {}

\* The Manager before main constructs it.
ManagerIdle ==
  /\ configFile = NotFound
  /\ config = NullConfig
  /\ configHash = NullHash
  /\ mpc = "idle"
  /\ op = "none"
  /\ epoch = 0
  /\ attempts = NoAttempts
  /\ outcomes = NoAttempts
  /\ connections = {}
  /\ edits = 0
  /\ initOutcome = "none"
  /\ lastDispatch = NoDispatch
  /\ remoteCalls = {}

\* The step after a dispatch: its record is dropped.
DispatchReturned == lastDispatch' = NoDispatch /\ remoteCalls' = {}

\* main, lines 107-108: the Manager is constructed and initialize() called.
InitializeCall ==
  /\ mpc = "new"
  /\ op' = "initialize"
  /\ mpc' = "load"
  /\ UNCHANGED << configFile, config, configHash, epoch, attempts, outcomes,
                  connections, edits, initOutcome, clients >>
  /\ DispatchReturned
  /\ UNCHANGED notManagerVars

\* initialize, lines 45-57: load and validate the config.  No config and an
\* invalid config return at once; a throw of validateConfig leaves initialize
\* (main then shuts the Manager down, a reload's caller sees the rejection).
InitializeLoad ==
  /\ mpc = "load"
  /\ config' = loadConfig(configFile)
  /\ LET checked == validateConfig(loadConfig(configFile)) IN
     IF loadConfig(configFile).isNull
     THEN initOutcome' = "no_config" /\ mpc' = "ready"
     ELSE IF checked.threw
     THEN /\ initOutcome' = "threw"
          /\ mpc' = IF op = "initialize" THEN "dead" ELSE "ready"
     ELSE IF ~checked.valid
     THEN initOutcome' = "invalid" /\ mpc' = "ready"
     ELSE initOutcome' = "none" /\ mpc' = "hash"
  /\ UNCHANGED << configFile, configHash, op, epoch, attempts, outcomes, connections,
                  edits, clients >>
  /\ DispatchReturned
  /\ UNCHANGED notManagerVars

\* initialize, lines 59-69: fingerprint the file as it is now and start one
\* connection attempt per enabled entry.
InitializeHash ==
  /\ mpc = "hash"
  /\ configHash' = calculateConfigHash(configFile)
  /\ attempts' = [n \in ManagerNames |->
                    IF n \in EnabledNames(config) THEN "pending" ELSE "none"]
  /\ outcomes' = NoAttempts
  /\ mpc' = "connect"
  /\ UNCHANGED << configFile, config, op, epoch, connections, edits, initOutcome, clients >>
  /\ DispatchReturned
  /\ UNCHANGED notManagerVars

\* initializeClient, lines 88-110 and 137-142: pick the transport and connect.
\* Without a transport, or when connect rejects, the catch records the error
\* and the entry is set.
InitializeClientConnect(name, connectOk) ==
  /\ mpc = "connect"
  /\ attempts[name] = "pending"
  /\ IF ~HasTransport(config.servers[name])
     THEN /\ clients' = (name :> FailedEntryOf("No command or url specified")) @@ clients
          /\ attempts' = [attempts EXCEPT ![name] = "done"]
          /\ outcomes' = [outcomes EXCEPT ![name] = "no_transport"]
          /\ UNCHANGED connections
     ELSE IF ~connectOk
     THEN /\ clients' = (name :> FailedEntryOf("connect failed")) @@ clients
          /\ attempts' = [attempts EXCEPT ![name] = "done"]
          /\ outcomes' = [outcomes EXCEPT ![name] = "connect_fail"]
          /\ UNCHANGED connections
     ELSE /\ connections' = connections \cup {[server |-> name, epoch |-> epoch]}
          /\ attempts' = [attempts EXCEPT ![name] = "connected"]
          /\ UNCHANGED << clients, outcomes >>
  /\ UNCHANGED << configFile, config, configHash, mpc, op, epoch, edits, initOutcome >>
  /\ DispatchReturned
  /\ UNCHANGED notManagerVars

\* initializeClient, lines 112-142: read the catalogs over the open
\* connection and set the entry.  A throw of listTools goes to the catch (the
\* connection stays open, the entry holds no client); a throw of
\* listResources or listPrompts is swallowed.
InitializeClientCatalog(name, toolsOk, resOk, promptsOk) ==
  /\ mpc = "connect"
  /\ attempts[name] = "connected"
  /\ clients' = (name :> IF toolsOk THEN ConnectedEntryOf(resOk, promptsOk)
                         ELSE FailedEntryOf("listTools failed")) @@ clients
  /\ attempts' = [attempts EXCEPT ![name] = "done"]
  /\ outcomes' = [outcomes EXCEPT ![name] = IF toolsOk THEN "ok" ELSE "tools_fail"]
  /\ UNCHANGED << configFile, config, configHash, mpc, op, epoch, connections, edits,
                  initOutcome >>
  /\ DispatchReturned
  /\ UNCHANGED notManagerVars

\* initialize, lines 67-73: the Promise.all resolves and initialize returns.
InitializeReturn ==
  /\ mpc = "connect"
  /\ AllSettled(attempts, EnabledNames(config))
  /\ initOutcome' = "connected"
  /\ mpc' = "ready"
  /\ UNCHANGED << configFile, config, configHash, op, epoch, attempts, outcomes,
                  connections, edits, clients >>
  /\ DispatchReturned
  /\ UNCHANGED notManagerVars

\* reloadIfNeeded, lines 145-152: compare the file's fingerprint with the
\* recorded one; unchanged returns false.
ReloadIfNeeded ==
  /\ mpc = "ready"
  /\ epoch < MaxReloads
  /\ IF calculateConfigHash(configFile) = configHash
     THEN op' = "reload_unchanged" /\ UNCHANGED mpc
     ELSE op' = "reload" /\ mpc' = "disconnect"
  /\ UNCHANGED << configFile, config, configHash, epoch, attempts, outcomes,
                  connections, edits, initOutcome, clients >>
  /\ DispatchReturned
  /\ UNCHANGED notManagerVars

\* reloadIfNeeded, lines 154-157, and disconnectAll: close the client of
\* every entry that holds one, clear the map and call initialize.
DisconnectAll ==
  /\ mpc = "disconnect"
  /\ connections' =
       connections \ { [server |-> n, epoch |-> epoch] :
                         n \in { m \in DOMAIN clients : clients[m].client } }
  /\ clients' = << >>
  /\ epoch' = epoch + 1
  /\ attempts' = NoAttempts
  /\ mpc' = "load"
  /\ UNCHANGED << configFile, config, configHash, op, outcomes, edits, initOutcome >>
  /\ DispatchReturned
  /\ UNCHANGED notManagerVars

\* The operator edits, replaces or removes the config file.
ConfigEdit(file) ==
  /\ mpc \notin {"idle", "dead"}
  /\ edits < MaxEdits
  /\ file # configFile
  /\ configFile' = file
  /\ edits' = edits + 1
  /\ UNCHANGED << config, configHash, mpc, op, epoch, attempts, outcomes, connections,
                  initOutcome, clients >>
  /\ DispatchReturned
  /\ UNCHANGED notManagerVars

\* callTool, readResource, getPrompt, listTools, listResources, listPrompts,
\* getToolDetails: check the entry, then (the first three) call the remote
\* client.  The check and the call are one synchronous stretch; lastDispatch
\* and remoteCalls hold what this step did until the next step.
ManagerDispatch(method, serverName) ==
  /\ mpc \notin {"idle", "new", "dead"}
  /\ lastDispatch = NoDispatch
  /\ LET thrown == ManagerCheck(clients, method, serverName)
         remote == thrown = "" /\ method \in ClientMethods
     IN /\ lastDispatch' =
             [method |-> method, server |-> serverName,
              known |-> serverName \in DOMAIN clients,
              entryError |-> IF serverName \in DOMAIN clients
                             THEN clients[serverName].error ELSE "",
              outcome |-> thrown, remote |-> remote]
        /\ remoteCalls' = IF remote THEN {[method |-> method, server |-> serverName]}
                          ELSE {}
  /\ UNCHANGED << configFile, config, configHash, mpc, op, epoch, attempts, outcomes,
                  connections, edits, initOutcome, clients >>
  /\ UNCHANGED notManagerVars

ManagerNext ==
  \/ InitializeCall
  \/ InitializeLoad
  \/ InitializeHash
  \/ \E name \in ManagerNames, connectOk \in BOOLEAN : InitializeClientConnect(name, connectOk)
  \/ \E name \in ManagerNames, toolsOk \in BOOLEAN, resOk \in BOOLEAN, promptsOk \in BOOLEAN :
       InitializeClientCatalog(name, toolsOk, resOk, promptsOk)
  \/ InitializeReturn
  \/ ReloadIfNeeded
  \/ DisconnectAll
  \/ \E file \in ConfigFiles : ConfigEdit(file)
  \/ \E method \in DispatchMethods, serverName \in DispatchNames :
       ManagerDispatch(method, serverName)


\* ------------------------------------- Tool-Proxy Manager, concurrent calls

\* How many discovery-tool handlers call reloadIfNeeded at the same time.
MaxCallers == 2

\* How many times the config file is rewritten while they run.
MaxRewrites == 1

Callers == 1..MaxCallers

\* Two contents of the config file; both enable the stdio server SrvA and
\* nothing else.
FileX == JsonFile(SrvA :> Stdio)
FileY == JsonFile((SrvA :> Stdio) @@ (SrvB :> DisabledStdio))

\* The entry initializeClient sets for a connected server; conn is the client
\* connection it holds.
EntryWith(conn) == [client |-> TRUE, error |-> "", conn |-> conn]

NoCall == [outcome |-> "none", reloading |-> FALSE]

\* The Manager after initialize has connected SrvA from FileX; no call is in
\* progress.
OverlapInit ==
  /\ sharedFile = FileX
  /\ rewrites = 0
  /\ storedHash = calculateConfigHash(FileX)
  /\ loadedConfig = loadConfig(FileX)
  /\ serverMap = (SrvA :> EntryWith(1))
  /\ opened = << "open" >>
  /\ callers = [t \in Callers |-> "idle"]
  /\ localClient = [t \in Callers |-> 0]
  /\ returned = [t \in Callers |-> FALSE]
  /\ bridgeCall = NoCall

\* No Manager exists.
OverlapIdle ==
  /\ sharedFile = NotFound
  /\ rewrites = 0
  /\ storedHash = NullHash
  /\ loadedConfig = NullConfig
  /\ serverMap = << >>
  /\ opened = << >>
  /\ callers = [t \in Callers |-> "off"]
  /\ localClient = [t \in Callers |-> 0]
  /\ returned = [t \in Callers |-> FALSE]
  /\ bridgeCall = NoCall

\* A reloadIfNeeded call is between its first and its last step.
Reloading(t) == callers[t] \notin {"off", "idle", "returned"}

\* The connections disconnectAll closes: the client of every entry that
\* holds one.
HeldConns(map) == { map[n].conn : n \in { m \in DOMAIN map : map[m].client } }

\* createMCPProxyTools, lines 296 and 313: a handler calls reloadIfNeeded,
\* which waits for calculateConfigHash.
CallerStart(t) ==
  /\ callers[t] = "idle"
  /\ callers' = [callers EXCEPT ![t] = "hash"]
  /\ UNCHANGED << sharedFile, rewrites, storedHash, loadedConfig, serverMap, opened,
                  localClient, returned, bridgeCall >>
  /\ UNCHANGED notOverlapVars

\* reloadIfNeeded, lines 146-154, and disconnectAll: the fingerprint of the
\* file is compared with the stored one; when they differ close() is called
\* on every held client and the call waits for the closes.
CallerCompare(t) ==
  /\ callers[t] = "hash"
  /\ IF calculateConfigHash(sharedFile) = storedHash
     THEN /\ callers' = [callers EXCEPT ![t] = "returned"]
          /\ UNCHANGED opened
     ELSE /\ opened' = [c \in DOMAIN opened |->
                          IF c \in HeldConns(serverMap) THEN "closed" ELSE opened[c]]
          /\ callers' = [callers EXCEPT ![t] = "clear"]
  /\ UNCHANGED << sharedFile, rewrites, storedHash, loadedConfig, serverMap,
                  localClient, returned, bridgeCall >>
  /\ UNCHANGED notOverlapVars

\* reloadIfNeeded, lines 155-157: the map is cleared and initialize called,
\* which waits for loadConfig.
CallerClear(t) ==
  /\ callers[t] = "clear"
  /\ serverMap' = << >>
  /\ callers' = [callers EXCEPT ![t] = "load"]
  /\ UNCHANGED << sharedFile, rewrites, storedHash, loadedConfig, opened,
                  localClient, returned, bridgeCall >>
  /\ UNCHANGED notOverlapVars

\* initialize, lines 45-59: the config is loaded and validated (both files
\* are valid), and initialize waits for calculateConfigHash.
CallerLoad(t) ==
  /\ callers[t] = "load"
  /\ loadedConfig' = loadConfig(sharedFile)
  /\ callers' = [callers EXCEPT ![t] = "inithash"]
  /\ UNCHANGED << sharedFile, rewrites, storedHash, serverMap, opened,
                  localClient, returned, bridgeCall >>
  /\ UNCHANGED notOverlapVars

\* initialize, lines 59-69: the fingerprint is stored and initializeClient
\* started for the enabled server, which waits for client.connect.
CallerHash(t) ==
  /\ callers[t] = "inithash"
  /\ storedHash' = calculateConfigHash(sharedFile)
  /\ callers' = [callers EXCEPT ![t] = "connect"]
  /\ UNCHANGED << sharedFile, rewrites, loadedConfig, serverMap, opened,
                  localClient, returned, bridgeCall >>
  /\ UNCHANGED notOverlapVars

\* initializeClient, lines 110-115: the connect has succeeded, a new
\* connection is open, and the attempt waits for the catalogs.
CallerConnect(t) ==
  /\ callers[t] = "connect"
  /\ opened' = Append(opened, "open")
  /\ localClient' = [localClient EXCEPT ![t] = Len(opened) + 1]
  /\ callers' = [callers EXCEPT ![t] = "catalog"]
  /\ UNCHANGED << sharedFile, rewrites, storedHash, loadedConfig, serverMap,
                  returned, bridgeCall >>
  /\ UNCHANGED notOverlapVars

\* initializeClient, lines 115-142, initialize, lines 67-73, reloadIfNeeded,
\* line 159: the catalogs are read, the entry is set with the client, and
\* initialize and reloadIfNeeded return.
CallerSet(t) ==
  /\ callers[t] = "catalog"
  /\ serverMap' = (SrvA :> EntryWith(localClient[t])) @@ serverMap
  /\ returned' = [returned EXCEPT ![t] = TRUE]
  /\ callers' = [callers EXCEPT ![t] = "returned"]
  /\ UNCHANGED << sharedFile, rewrites, storedHash, loadedConfig, opened,
                  localClient, bridgeCall >>
  /\ UNCHANGED notOverlapVars

\* The operator rewrites the config file.
FileRewrite ==
  /\ \E t \in Callers : callers[t] # "off"
  /\ rewrites < MaxRewrites
  /\ sharedFile' = IF sharedFile = FileX THEN FileY ELSE FileX
  /\ rewrites' = rewrites + 1
  /\ UNCHANGED << storedHash, loadedConfig, serverMap, opened, callers,
                  localClient, returned, bridgeCall >>
  /\ UNCHANGED notOverlapVars

\* handleRPCRequest's callTool for SrvA and MCPManager.callTool, lines
\* 237-243: getClientSafe, then the request is sent on the client.
CallToolNow ==
  /\ \E t \in Callers : callers[t] # "off"
  /\ bridgeCall = NoCall
  /\ LET thrown == getClientSafe(serverMap, SrvA) IN
     bridgeCall' =
       [outcome |-> IF thrown # "" THEN thrown
                    ELSE IF opened[serverMap[SrvA].conn] = "closed" THEN "CLOSED_CLIENT"
                    ELSE "sent",
        reloading |-> \E t \in Callers : Reloading(t)]
  /\ UNCHANGED << sharedFile, rewrites, storedHash, loadedConfig, serverMap, opened,
                  callers, localClient, returned >>
  /\ UNCHANGED notOverlapVars

OverlapNext ==
  \/ \E t \in Callers : CallerStart(t)
  \/ \E t \in Callers : CallerCompare(t)
  \/ \E t \in Callers : CallerClear(t)
  \/ \E t \in Callers : CallerLoad(t)
  \/ \E t \in Callers : CallerHash(t)
  \/ \E t \in Callers : CallerConnect(t)
  \/ \E t \in Callers : CallerSet(t)
  \/ FileRewrite
  \/ CallToolNow

\* ------------------------------------------- Dependency Allowlist Validator

\* How long the part of a generated specifier after its registry prefix may
\* be, in characters.
MaxRest == 3

\* The class [\w-] is NameChars; the class [\w.\-^~>=<*] of a version:
VersionChars == NameChars \cup {".", "^", "~", ">", "=", "<", "*"}

\* isValidPackageSpecifier, line 50 ("BACKTICK" is the backtick character,
\* which a TLA+ string cannot hold).
SuspiciousChars == {";", "\n", "\r", "'", "\"", "BACKTICK", "\\", "$", "(", ")"}

\* String.prototype.startsWith, on characters.
HasPrefix(str, prefix) ==
  Len(str) >= Len(prefix) /\ SubSeq(str, 1, Len(prefix)) = prefix

\* String.prototype.indexOf(ch, from), 1-based; 0 when there is none.
IndexOf(str, ch, from) ==
  IF \E i \in from..Len(str) : str[i] = ch
  THEN CHOOSE i \in from..Len(str) :
         str[i] = ch /\ \A k \in from..(i - 1) : str[k] # ch
  ELSE 0

\* String.prototype.lastIndexOf(ch), 1-based; 0 when there is none.
LastIndexOf(str, ch) ==
  IF \E i \in 1..Len(str) : str[i] = ch
  THEN CHOOSE i \in 1..Len(str) :
         str[i] = ch /\ \A k \in (i + 1)..Len(str) : str[k] # ch
  ELSE 0

RECURSIVE Split(_, _)
\* String.prototype.split(ch): the pieces between the occurrences of ch.
Split(str, ch) ==
  IF IndexOf(str, ch, 1) = 0 THEN << str >>
  ELSE << SubSeq(str, 1, IndexOf(str, ch, 1) - 1) >>
         \o Split(SubSeq(str, IndexOf(str, ch, 1) + 1, Len(str)), ch)

RECURSIVE JoinChars(_, _)
\* Array.prototype.join(ch) of character strings.
JoinChars(parts, ch) ==
  IF parts = << >> THEN << >>
  ELSE IF Len(parts) = 1 THEN Head(parts)
       ELSE Head(parts) \o << ch >> \o JoinChars(Tail(parts), ch)

Npm == << "n", "p", "m", ":" >>
Jsr == << "j", "s", "r", ":" >>

\* (@?[\w-]+\/)?
MatchScope(str) ==
  \/ str = << >>
  \/ /\ Len(str) >= 2
     /\ str[Len(str)] = "/"
     /\ LET body == SubSeq(str, 1, Len(str) - 1)
            word == IF body[1] = "@" THEN Tail(body) ELSE body
        IN Len(word) >= 1 /\ \A i \in 1..Len(word) : word[i] \in NameChars

\* [\w-]+
MatchName(str) == Len(str) >= 1 /\ \A i \in 1..Len(str) : str[i] \in NameChars

\* (@[\w\.\-\^~>=<*]+)?
MatchVersion(str) ==
  \/ str = << >>
  \/ /\ Len(str) >= 2
     /\ str[1] = "@"
     /\ \A i \in 2..Len(str) : str[i] \in VersionChars

\* isValidPackageSpecifier, line 59: /^(@?[\w-]+\/)?[\w-]+(@[\w\.\-\^~>=<*]+)?$/
validPattern(rest) ==
  \E i \in 0..Len(rest) : \E j \in i..Len(rest) :
    /\ MatchScope(SubSeq(rest, 1, i))
    /\ MatchName(SubSeq(rest, i + 1, j))
    /\ MatchVersion(SubSeq(rest, j + 1, Len(rest)))

\* isValidPackageSpecifier, line 46: const [, rest] = dependency.split(':')
RestOf(dependency) ==
  IF Len(Split(dependency, ":")) >= 2 THEN Split(dependency, ":")[2] ELSE << >>

\* isValidPackageSpecifier
isValidPackageSpecifier(dependency) ==
  /\ HasPrefix(dependency, Npm) \/ HasPrefix(dependency, Jsr)
  /\ RestOf(dependency) # << >>
  /\ ~ \E i \in 1..Len(RestOf(dependency)) : RestOf(dependency)[i] \in SuspiciousChars
  /\ validPattern(RestOf(dependency))

IsScoped(dependency) ==
  HasPrefix(dependency, Npm \o << "@" >>) \/ HasPrefix(dependency, Jsr \o << "@" >>)

\* normalizePackage
normalizePackage(dependency) ==
  LET parts == Split(dependency, "@")
  IN IF IsScoped(dependency)
     THEN JoinChars(SubSeq(parts, 1, IF Len(parts) < 3 THEN Len(parts) ELSE 3), "@")
     ELSE parts[1]

NoConstraint == [isNull |-> TRUE, text |-> << >>]
Constraint(text) == [isNull |-> FALSE, text |-> text]

\* getVersionConstraint
getVersionConstraint(allowedDep) ==
  IF LastIndexOf(allowedDep, "@") = 0 THEN NoConstraint
  ELSE IF IsScoped(allowedDep)
       THEN IF IndexOf(allowedDep, "@", 6) = 0 THEN NoConstraint
            ELSE Constraint(SubSeq(allowedDep, IndexOf(allowedDep, "@", 6) + 1,
                                   Len(allowedDep)))
       ELSE Constraint(SubSeq(allowedDep, LastIndexOf(allowedDep, "@") + 1,
                              Len(allowedDep)))

\* An allowlist: the wildcard, or a list of entries.
Wildcard == [all |-> TRUE, list |-> << >>]
Listed(entries) == [all |-> FALSE, list |-> entries]

\* A check that stops after the format validation and never consults the list.
isDependencyAllowedFormatOnly(dependency, allowed) ==
  allowed.all \/ isValidPackageSpecifier(dependency)

\* isDependencyAllowed
isDependencyAllowed(dependency, allowed) ==
  IF allowed.all THEN TRUE
  ELSE IF ~isValidPackageSpecifier(dependency) THEN FALSE
  ELSE \E i \in 1..Len(allowed.list) :
         normalizePackage(dependency) = normalizePackage(allowed.list[i])

\* enrichDependencyWithVersion
enrichDependencyWithVersion(dependency, entries) ==
  IF normalizePackage(dependency) # dependency THEN dependency
  ELSE IF \E i \in 1..Len(entries) :
            normalizePackage(dependency) = normalizePackage(entries[i])
       THEN LET first == CHOOSE i \in 1..Len(entries) :
                  /\ normalizePackage(dependency) = normalizePackage(entries[i])
                  /\ \A k \in 1..(i - 1) :
                       normalizePackage(dependency) # normalizePackage(entries[k])
                constraint == getVersionConstraint(entries[first])
            IN IF ~constraint.isNull /\ constraint.text # << >>
               THEN dependency \o << "@" >> \o constraint.text
               ELSE dependency
       ELSE dependency

RECURSIVE FormatErrors(_)
\* validateDependencies, lines 173-178: one "Invalid format" error per
\* specifier that fails the format check.
FormatErrors(deps) ==
  IF deps = << >> THEN << >>
  ELSE (IF ~isValidPackageSpecifier(Head(deps))
        THEN << [kind |-> "Invalid format", dep |-> Head(deps)] >> ELSE << >>)
       \o FormatErrors(Tail(deps))

RECURSIVE ValidateListed(_, _, _)
\* validateDependencies, lines 188-213: the loop over the requested
\* specifiers, acc the result so far.
ValidateListed(deps, allowed, acc) ==
  IF deps = << >> THEN [acc EXCEPT !.valid = (acc.invalid = << >>)]
  ELSE LET dep == Head(deps)
           enrichedDep == enrichDependencyWithVersion(dep, allowed.list)
       IN IF ~isDependencyAllowed(enrichedDep, allowed)
          THEN ValidateListed(Tail(deps), allowed,
                 [acc EXCEPT
                    !.invalid = Append(@, dep),
                    !.errors = Append(@,
                      [kind |-> IF ~isValidPackageSpecifier(dep)
                                THEN "Invalid format" ELSE "Not in allowlist",
                       dep |-> dep])])
          ELSE ValidateListed(Tail(deps), allowed,
                 [acc EXCEPT !.enriched = Append(@, enrichedDep)])

\* validateDependencies
validateDependencies(deps, allowed) ==
  IF allowed.all
  THEN [valid |-> FormatErrors(deps) = << >>,
        invalid |-> IF Len(FormatErrors(deps)) > 0 THEN deps ELSE << >>,
        errors |-> FormatErrors(deps),
        enriched |-> deps]
  ELSE ValidateListed(deps, allowed,
         [valid |-> TRUE, invalid |-> << >>, errors |-> << >>, enriched |-> << >>])

\* The characters the generated specifiers are drawn from.
DepAlphabet == {"a", "@", "/", ":", "$", ";", "^"}
Remainders == UNION { [1..n -> DepAlphabet] : n \in 0..MaxRest }
Prefixes == { Npm, Jsr, << >> }

\* Well-formed scoped and versioned specifiers, longer than MaxRest allows.
ScopedA == Jsr \o << "@", "s", "/", "p" >>
SampleSpecifiers ==
  { ScopedA, ScopedA \o << "@", "^", "1" >>, Npm \o << "@", "s", "/", "p", "@", "2" >> }

Specifiers == { p \o r : p \in Prefixes, r \in Remainders } \cup SampleSpecifiers

PlainA == Npm \o << "a" >>

\* The requests: one specifier, or one specifier after a well-formed one.
DepRequests == { << d >> : d \in Specifiers } \cup { << PlainA, d >> : d \in Specifiers }

\* The allowlists: the wildcard and two concrete lists.
AllowLists ==
  { Wildcard,
    Listed(<< PlainA \o << "@", "^", "1" >>, ScopedA \o << "@", "^", "1" >> >>),
    Listed(<< PlainA >>) }

NoValidation == [valid |-> FALSE, invalid |-> << >>, errors |-> << >>, enriched |-> << >>]

ValidatorInit ==
  /\ vpc = "start"
  /\ dependencies \in DepRequests
  /\ allowedList \in AllowLists
  /\ validation = NoValidation

\* The validator before any request.
ValidatorIdle ==
  /\ vpc = "idle"
  /\ dependencies = << >>
  /\ allowedList = Wildcard
  /\ validation = NoValidation

\* validateDependencies is called on the request.
Validate ==
  /\ vpc = "start"
  /\ validation' = validateDependencies(dependencies, allowedList)
  /\ vpc' = "done"
  /\ UNCHANGED << dependencies, allowedList >>
  /\ UNCHANGED notValidatorVars

ValidatorNext == Validate


Next ==
  \/ ResolvePermissions
  \/ \E mkOk \in BOOLEAN, writeOk \in BOOLEAN : InstallPrepare(mkOk, writeOk)
  \/ \E spawnOk \in BOOLEAN : InstallSpawn(spawnOk)
  \/ InstallTimerFire
  \/ InstallTimerKillThrows
  \/ \E code \in ExitCodes : InstallExit(code)
  \/ InstallReadFail
  \/ InstallJoin
  \/ RunAfterInstall
  \/ \E mkOk \in BOOLEAN, writeOk \in BOOLEAN : WriteTempFile(mkOk, writeOk)
  \/ \E spawnOk \in BOOLEAN : ExecSpawn(spawnOk)
  \/ TimerFire
  \/ TimerKillThrows
  \/ \E line \in StdoutLines : ProcWriteStdout(line)
  \/ \E line \in StderrLines : ProcWriteStderr(line)
  \/ \E cap \in GuardedOperations : ProcDenied(cap)
  \/ \E code \in ExitCodes : ProcExit(code)
  \/ StdoutDone
  \/ StderrDone
  \/ StreamFail
  \/ ExecJoin
  \/ RunReturn

\* ================================================================== claims

\* C1: whenever the deadline timer has fired for the phase-2 subprocess, the
\* result run() returns is an error of kind timeout, whatever the exit code,
\* the output and the interleaving with exit, draining and read failures.
C1_TimerFiredYieldsTimeout ==
  (pc = "done" /\ timer = "fired")
    => (result.status = "error" /\ result.errorType = "timeout")

\* C2: for a call that requests dependencies, the phase-2 subprocess is
\* launched without write access to the phase-1 cache directory.
C2_Phase2CannotWriteCache ==
  (process # "none" /\ Len(options.dependencies) > 0)
    => ~Grants(execArgs, "write", DepsDir)

\* The places outside the phase-1 cache directory.
OutsideDepsDir == {"/", TmpRoot, ScriptDir, "/workspace"}

\* C3: the phase-1 subprocess is launched with exactly two capabilities,
\* write access limited to its own temp directory and network access.
C3_InstallCapabilities ==
  installProc # "none"
    => /\ Capabilities(installArgs) = {"write", "net"}
       /\ Grants(installArgs, "write", DepsDir)
       /\ \A path \in OutsideDepsDir : ~Grants(installArgs, "write", path)

C5_CacheDirDeleted == pc = "done" => DepsDir \notin fs

\* C6: when run() has returned, the script temp directory it created no
\* longer exists.
C6_ScriptDirDeleted == pc = "done" => ScriptDir \notin fs

\* C7: a request whose Authorization header is not exactly the bearer form
\* of the instance's token is answered 401 and invokes no Manager method.
C7_UnauthorizedNeverDispatches ==
  (bpc # "idle" /\ request.authHeader # << "Bearer ", authToken >>)
    => /\ managerCalls = << >>
       /\ bpc \in {"auth", "responded"}
       /\ bpc = "responded" => response = Reply(401, FALSE, "Unauthorized")

\* C7 witness: a request that carries another instance's token and would
\* otherwise have been dispatched has been answered 401.
C7_Witness ==
  /\ bpc = "responded"
  /\ authToken = "t1"
  /\ request.authHeader = << "Bearer ", "t2" >>
  /\ request.body.kind = "object"
  /\ request.body.server = << "a" >>
  /\ request.body.method = "listTools"
  /\ response.status = 401

\* A character outside letters, digits, dash and underscore.
HasBadNameChar(name) ==
  \E i \in 1..Len(name) :
    name[i] \notin (Lower \cup Upper \cup Digits \cup {"-", "_"})

\* C8: a request whose server name contains a character outside letters,
\* digits, dash and underscore is rejected and invokes no Manager method.
C8_BadServerNameNeverDispatches ==
  (bpc # "idle" /\ request.body.kind = "object" /\ HasBadNameChar(request.body.server))
    => /\ managerCalls = << >>
       /\ bpc # "await"
       /\ bpc = "responded" =>
            /\ ~response.hasResult
            /\ response.status \in {401, 500}
            /\ response.status = 500 => response.error = "Invalid server name"

\* C8 witness: an authenticated request for server "a/" with a dispatchable
\* method has been answered with the rejection.
C8_Witness ==
  /\ bpc = "responded"
  /\ request.authHeader = << "Bearer ", authToken >>
  /\ request.body.kind = "object"
  /\ request.body.server = << "a", "/" >>
  /\ request.body.method = "listTools"
  /\ response.status = 500
  /\ managerCalls = << >>

\* The bridge-level failures: failed authentication, a malformed body, an
\* unknown method.
BridgeLevelFailure ==
  \/ request.authHeader # << "Bearer ", authToken >>
  \/ request.body.kind \in {"malformed", "null"}
  \/ request.body.kind = "object" /\ request.body.method \notin BridgeMethods

\* C9: no bridge-level failure is answered with HTTP 200.
C9_BridgeFailureNever200 ==
  (bpc = "responded" /\ BridgeLevelFailure) => response.status # 200

\* The shell/injection metacharacters: quotes, backtick, parentheses,
\* semicolon, dollar, newline.
Metachars == {"'", "\"", "BACKTICK", "(", ")", ";", "$", "\n"}

\* The part of a specifier after its registry prefix.
AfterPrefix(dep) ==
  IF HasPrefix(dep, Npm) \/ HasPrefix(dep, Jsr) THEN SubSeq(dep, 5, Len(dep)) ELSE dep

\* C10: validateDependencies never returns valid = true for a request that
\* holds a specifier with a metacharacter after its registry prefix, under a
\* concrete allowlist and under the wildcard.
C10_MetacharNeverValid ==
  (vpc = "done"
     /\ \E k \in 1..Len(dependencies) :
          \E i \in 1..Len(AfterPrefix(dependencies[k])) :
            AfterPrefix(dependencies[k])[i] \in Metachars)
    => ~validation.valid

\* Where the version of a specifier starts: the "@" after the name (for a
\* scoped name, the "@" after the scope's own); 0 when it carries none.
VersionAt(dep) ==
  IF IsScoped(dep) THEN IndexOf(dep, "@", 6) ELSE IndexOf(dep, "@", 1)

\* The package a specifier names: registry, scope and name, without version.
PackageIdentity(dep) ==
  IF VersionAt(dep) = 0 THEN dep ELSE SubSeq(dep, 1, VersionAt(dep) - 1)

\* The version a specifier carries (<< >> when it carries none).
VersionOf(dep) ==
  IF VersionAt(dep) = 0 THEN << >> ELSE SubSeq(dep, VersionAt(dep) + 1, Len(dep))

\* C11: under a concrete allowlist, a requested specifier whose package
\* matches no allowlist entry is listed in invalid with an error and is not
\* in enriched.
C11_UnlistedIsInvalid ==
  (vpc = "done" /\ ~allowedList.all)
    => \A k \in 1..Len(dependencies) :
         (\A i \in 1..Len(allowedList.list) :
            PackageIdentity(dependencies[k]) # PackageIdentity(allowedList.list[i]))
           => /\ dependencies[k] \in Range(validation.invalid)
              /\ \E e \in Range(validation.errors) : e.dep = dependencies[k]
              /\ dependencies[k] \notin Range(validation.enriched)
              /\ ~validation.valid

\* C11 witness: npm:aa after the listed npm:a: the first is enriched, the
\* second reported as not in the allowlist.
C11_Witness ==
  /\ vpc = "done"
  /\ allowedList = Listed(<< PlainA \o << "@", "^", "1" >>, ScopedA \o << "@", "^", "1" >> >>)
  /\ dependencies = << PlainA, Npm \o << "a", "a" >> >>
  /\ validation.invalid = << Npm \o << "a", "a" >> >>
  /\ validation.errors = << [kind |-> "Not in allowlist", dep |-> Npm \o << "a", "a" >>] >>
  /\ validation.enriched = << PlainA \o << "@", "^", "1" >> >>

\* C12: for every allowlist entry that carries a version constraint, scoped
\* or unscoped, a request of that package without a version is accepted and
\* enriched to the request with the entry's constraint appended.
C12_UnversionedInheritsConstraint ==
  (vpc = "done" /\ ~allowedList.all)
    => \A k \in 1..Len(dependencies) : \A i \in 1..Len(allowedList.list) :
         ( /\ VersionOf(allowedList.list[i]) # << >>
           /\ dependencies[k] = PackageIdentity(allowedList.list[i]) )
           => /\ dependencies[k] \notin Range(validation.invalid)
              /\ (dependencies[k] \o << "@" >> \o VersionOf(allowedList.list[i]))
                   \in Range(validation.enriched)

\* A specifier that has the form the validator accepts and carries a version.
Versioned(dep) == isValidPackageSpecifier(dep) /\ VersionOf(dep) # << >>

\* C13: enrichDependencyWithVersion returns every specifier that already
\* carries a version unchanged, scoped or unscoped.
C13_VersionedUnchanged ==
  (vpc = "done" /\ ~allowedList.all)
    => \A k \in 1..Len(dependencies) :
         Versioned(dependencies[k])
           => enrichDependencyWithVersion(dependencies[k], allowedList.list)
                = dependencies[k]

\* C14: every accepted dependency whose allowlist entry carries a version
\* constraint has that constraint as its version in enriched, also when the
\* request named another version.
C14_AllowlistVersionWins ==
  (vpc = "done" /\ ~allowedList.all)
    => \A x \in Range(validation.enriched) : \A i \in 1..Len(allowedList.list) :
         ( /\ VersionOf(allowedList.list[i]) # << >>
           /\ PackageIdentity(x) = PackageIdentity(allowedList.list[i]) )
           => VersionOf(x) = VersionOf(allowedList.list[i])


\* initialize() has returned after connecting the enabled entries.
InitializeConnected == mpc = "ready" /\ initOutcome = "connected"

\* C15: when initialize has run over the enabled entries, each entry whose
\* attempt failed (no transport, connect rejected, listTools threw) holds a
\* non-null error and empty tool, resource and prompt catalogs, each entry
\* whose attempt succeeded is connected without error and lists its tools, and
\* a failed attempt never makes initialize throw.
C15_FailureIsIsolated ==
  /\ InitializeConnected =>
       \A n \in EnabledNames(config) :
         /\ n \in DOMAIN clients
         /\ outcomes[n] \in {"no_transport", "connect_fail", "tools_fail"} =>
              /\ clients[n].error # ""
              /\ ~clients[n].client
              /\ clients[n].tools = << >>
              /\ clients[n].resources = << >>
              /\ clients[n].prompts = << >>
         /\ outcomes[n] = "ok" =>
              /\ clients[n].error = ""
              /\ clients[n].client
              /\ clients[n].tools = ServerTools
  /\ initOutcome = "threw" => \E n \in DOMAIN config.servers : ~config.servers[n].object

\* Two enabled entries, one failed and the other connected.
C15_Witness ==
  /\ InitializeConnected
  /\ \E n, m \in EnabledNames(config) :
       /\ outcomes[n] = "connect_fail" /\ clients[n].error # ""
       /\ outcomes[m] = "ok" /\ clients[m].client

\* C16: when initialize returns after its connection attempts, the map holds
\* an entry for every enabled config entry and for no other name, and no
\* attempt is still pending or mid-way, whatever the order they finished in.
C16_EveryEnabledEntryRecorded ==
  InitializeConnected =>
    /\ DOMAIN clients = EnabledNames(config)
    /\ \A n \in EnabledNames(config) :
         /\ attempts[n] = "done"
         /\ clients[n].client \/ clients[n].error # ""

\* Two enabled entries are recorded, the second-named one having finished
\* first is covered by the interleaving of the attempts.
C16_Witness ==
  /\ InitializeConnected
  /\ EnabledNames(config) = {SrvA, SrvB}
  /\ DOMAIN clients = {SrvA, SrvB}

ReloadReturned == op = "reload" /\ mpc = "ready" /\ initOutcome # "threw"

\* C18: after a reload on a changed fingerprint no connection opened for the
\* old config is still open, and the map holds exactly the enabled entries of
\* the config that was loaded.
C18_ReloadLeavesNothingOld ==
  ReloadReturned =>
    /\ \A c \in connections : c.epoch = epoch
    /\ DOMAIN clients = EnabledNames(config)

\* A config entry that names exactly one transport (and args with a command).
WellFormed(entry) ==
  /\ entry.object
  /\ (entry.command # "absent") # (entry.url # "absent")
  /\ entry.command # "absent" => entry.args

\* C19: when initialize has returned for a config whose entries are objects,
\* every enabled entry with exactly one of command and url has been attempted
\* and is in the map, whatever the other entries of the file look like.
C19_MalformedEntryDisabledAlone ==
  (mpc = "ready" /\ ~config.isNull /\ initOutcome # "threw") =>
    \A n \in EnabledNames(config) :
      WellFormed(config.servers[n]) => n \in DOMAIN clients

\* C20: the Bridge's bearer token is in no file written to disk and in no
\* line of the captured output of a script.
C20_TokenNeverPersistedOrLogged ==
  /\ \A w \in diskWrites : authToken \notin Range(w.content)
  /\ \A i \in 1..Len(stdoutPipe) : authToken \notin Range(stdoutPipe[i])
  /\ \A i \in 1..Len(stderrPipe) : authToken \notin Range(stderrPipe[i])

\* The sum of a sequence of sizes.
RECURSIVE SumSeq(_)
SumSeq(sizes) == IF sizes = << >> THEN 0 ELSE Head(sizes) + SumSeq(Tail(sizes))

\* C21: the chunks buffered never add up to more than the ceiling; the read
\* stops at the first chunk that takes the cumulative size over the ceiling,
\* the request is answered with the rejection and invokes no Manager method.
C21_BodyNeverOverCeiling ==
  /\ SumSeq(bodyParts) <= MAX_BODY_SIZE
  /\ totalSize > MAX_BODY_SIZE =>
       /\ SumSeq(SubSeq(request.chunks, 1, received - 1)) <= MAX_BODY_SIZE
       /\ bpc = "responded"
       /\ response = Reply(500, FALSE, "Request body too large")
       /\ managerCalls = << >>

\* An authenticated call whose second chunk crossed the ceiling, a third
\* chunk still to come, has been rejected.
C21_Witness ==
  /\ request.authHeader = BearerOf(authToken)
  /\ Len(request.chunks) = 3
  /\ received = 2
  /\ totalSize > MAX_BODY_SIZE
  /\ Len(bodyParts) = 1
  /\ response.status = 500

\* C22: when the runtime has denied an operation of a script launched with
\* no capability, the script has ended non-zero, no timer has fired and both
\* streams were read to their end, the result is an error of kind permission.
C22_DenialYieldsPermission ==
  (/\ pc = "done"
   /\ Denials(stderrPipe) # {}
   /\ exitCode # 0
   /\ timer # "fired"
   /\ stdoutRead = "done" /\ stderrRead = "done")
    => result.status = "error" /\ result.errorType = "permission"

\* The phase-2 subprocess has exited non-zero, the timer has not fired, both
\* streams were read to their end and run() has returned.
NonZeroExitReturned ==
  /\ pc = "done"
  /\ process = "exited" /\ exitCode # 0
  /\ timer # "fired"
  /\ stdoutRead = "done" /\ stderrRead = "done"

\* Some captured stderr line holds one of the markers.
StderrHolds(markers) ==
  \E i \in 1..Len(stderrPipe) : \E j \in 1..Len(stderrPipe[i]) :
    stderrPipe[i][j] \in markers

\* C23: a phase-2 subprocess that exits non-zero without the timer having
\* fired yields an error whose kind is syntax when the captured stderr holds
\* a parse/syntax marker, else permission when it holds a capability-denied
\* marker, else runtime.
C23_KindByMarker ==
  NonZeroExitReturned =>
    /\ result.status = "error"
    /\ result.errorType =
         IF StderrHolds(SyntaxMarkers) THEN "syntax"
         ELSE IF StderrHolds(PermissionMarkers) THEN "permission"
         ELSE "runtime"

\* A non-zero exit whose stderr holds both kinds of marker is reported as
\* syntax.
C23_Witness ==
  /\ NonZeroExitReturned
  /\ StderrHolds(SyntaxMarkers) /\ StderrHolds(PermissionMarkers)
  /\ result.errorType = "syntax"

\* C24: when phase-1 installation has failed, the error result's kind is
\* none of syntax, runtime, timeout and permission.
C24_InstallFailureHasOwnKind ==
  (pc = "done" /\ Len(options.dependencies) > 0 /\ ~installResult.success)
    => /\ result.status = "error"
       /\ result.errorType \notin {"syntax", "runtime", "timeout", "permission"}

\* The call carries a permission spec that validate rejects, or a dependency
\* specifier with a metacharacter after its registry prefix.
MalformedRequest ==
  \/ HasKeys(options.permissions) /\ ~validate(options.permissions)
  \/ \E k \in 1..Len(options.dependencies) :
       \E i \in 1..Len(AfterPrefix(options.dependencies[k])) :
         AfterPrefix(options.dependencies[k])[i] \in Metachars

\* C25: for a call with a malformed permission spec or a malformed
\* dependency specifier no subprocess, install or execution, is ever
\* spawned, and the call returns an error result.
C25_MalformedRejectedBeforeSpawn ==
  (pc # "idle" /\ MalformedRequest)
    => /\ installProc = "none"
       /\ process = "none"
       /\ pc = "done" => result.status = "error"

\* A line holds the return-value marker.
CarriesMarker(line) == \E i \in 1..Len(line) : line[i] = Marker

\* C26: once the output is processed no line of output carries the
\* return-value marker, and when the script wrote a marker line the return
\* value is set.
C26_MarkerLinesNeverInOutput ==
  cpc = "done" =>
    /\ \A i \in 1..Len(captured.output) : ~CarriesMarker(captured.output[i])
    /\ (\E k \in 1..Len(Emitted(writes, finalExpr)) :
          CarriesMarker(Emitted(writes, finalExpr)[k].text)) =>
         ~captured.returnValue.null

\* The lines a script emits when every write is one whole line, in the order
\* it emits them, the marker lines left out.
RECURSIVE EmittedLines(_)
EmittedLines(ws) ==
  IF ws = << >> THEN << >>
  ELSE LET line == SubSeq(Head(ws).text, 1, Len(Head(ws).text) - 1)
       IN IF CarriesMarker(line) THEN EmittedLines(Tail(ws))
          ELSE << line >> \o EmittedLines(Tail(ws))

WholeLines(ws) ==
  \A k \in 1..Len(ws) : ws[k].text[Len(ws[k].text)] = "\n"

\* C27: for a script that writes whole lines, the output is the non-marker
\* lines in the order the script emitted them, none dropped or reordered.
C27_OutputInEmissionOrder ==
  (cpc = "done" /\ WholeLines(writes)) =>
    captured.output = EmittedLines(Emitted(writes, finalExpr))

\* C28: the timeout a call is run with is the smaller of the requested timeout
\* and the configured maximum when the request carries a timeout, the
\* configured default otherwise, and never exceeds the configured maximum.
C28_EffectiveTimeout ==
  tpc = "armed" =>
    /\ timeout = (IF requested.given
                    THEN (IF requested.ms <= serverConfig.maxTimeout
                            THEN requested.ms ELSE serverConfig.maxTimeout)
                    ELSE serverConfig.defaultTimeout)
    /\ timeout <= serverConfig.maxTimeout

\* The launch flags run() is to pass to phase 2 for the call's options.
ExpectedFlags ==
  << NoPromptFlag >>
    \o (IF HasKeys(options.permissions) THEN build(options.permissions)
        ELSE SeqFilter(defaultRunArgs, Range(defaultRunArgs) \ {NoPromptFlag}))

\* C29: the flags phase 2 is launched with are --no-prompt followed by the
\* flags built from the request's permission spec when the spec is non-empty
\* (no default run argument merged in) and --no-prompt followed by the default
\* run arguments otherwise, and --no-prompt occurs exactly once.
C29_LaunchFlags ==
  execArgs # << >> =>
    /\ runArgs = ExpectedFlags
    /\ execArgs[1] = Bare("run")
    /\ SubSeq(execArgs, 2, Len(ExpectedFlags) + 1) = ExpectedFlags
    /\ Cardinality({ i \in 1..Len(execArgs) : execArgs[i] = NoPromptFlag }) = 1
    /\ \A i \in (Len(ExpectedFlags) + 2)..Len(execArgs) :
         execArgs[i] \notin Range(defaultRunArgs)

\* Phase 2 was launched for a call that carries a permission spec while the
\* operator's default run arguments are not empty.
C29_Witness ==
  /\ execArgs # << >>
  /\ HasKeys(options.permissions)
  /\ \E i \in 1..Len(defaultRunArgs) : defaultRunArgs[i] # NoPromptFlag
  /\ Len(build(options.permissions)) > 0

\* C30: build returns exactly the one-element list holding the
\* all-capabilities flag whenever the spec's all field is true, whatever the
\* other fields hold.
C30_AllYieldsSingleFlag ==
  (ppc = "built" /\ permSpec["all"] = Bool(TRUE)) =>
    flags = << Bare("--allow-all") >>

\* build has returned for a spec with all true and other capabilities set.
C30_Witness ==
  /\ ppc = "built"
  /\ permSpec["all"] = Bool(TRUE)
  /\ permSpec["net"] = Bool(TRUE)
  /\ permSpec["write"].t = "array"
  /\ permSpec["hrtime"] = Bool(TRUE)
  /\ flags # << >>

\* The flags of a list that name capability f.
FlagsNamed(list, f) == { i \in 1..Len(list) : list[i].name = "--allow-" \o f }

\* C31: when the all field is not set, build emits for each capability the
\* bare flag if its value is true, the flag with the listed values if it is a
\* non-empty array, and nothing if it is false, empty or absent; a spec with
\* no field set yields the empty list.
C31_FlagPerCapability ==
  (ppc = "built" /\ permSpec["all"] \in {Undef, Bool(FALSE)}) =>
    /\ \A f \in ArrayPerms :
         LET v == permSpec[f]
             named == FlagsNamed(flags, f)
         IN IF v = Bool(TRUE)
            THEN \E i \in named : named = {i} /\ flags[i].values = << >>
            ELSE IF v.t = "array" /\ v.items # << >>
                 THEN \E i \in named :
                        /\ named = {i}
                        /\ Len(flags[i].values) = Len(v.items)
                        /\ \A k \in 1..Len(v.items) : flags[i].values[k] = v.items[k].s
                 ELSE named = {}
    /\ \A i \in 1..Len(flags) : flags[i].name # "--allow-all"
    /\ (permSpec = NoPerms => flags = << >>)

\* build has returned for a spec without all that holds a true capability, a
\* two-element array and an empty array.
C31_Witness ==
  /\ ppc = "built"
  /\ permSpec["all"] = Undef
  /\ permSpec["net"] = Bool(TRUE)
  /\ Len(permSpec["write"].items) = 2
  /\ permSpec["run"] = Arr(<< >>)
  /\ Len(flags) = 4

\* build has returned the empty list for the spec with no field set.
C31_EmptyWitness == ppc = "built" /\ permSpec = NoPerms /\ flags = << >>

\* C32: the stub's methods, the methods the Bridge dispatches and the method
\* enum of the request type are one set: a request that passed the token and
\* name checks is answered "Unknown method" exactly when its method is not in
\* the enum, and its method is in the enum exactly when the stub has it.
C32_MethodSetsAgree ==
  (/\ bpc \in {"await", "responded"}
   /\ request.chunks = OneChunk
   /\ Authorized(request.authHeader, authToken)
   /\ BridgeReject(request.body) = "") =>
    LET method == request.body.method IN
    /\ (method \in MCPRPCRequestMethods) = (method \in StubMethods)
    /\ (bpc = "responded" /\ response.error = "Unknown method")
         = (method \notin MCPRPCRequestMethods)

\* C34: while the config file is as initialize found it, whatever its
\* content, no reloadIfNeeded call finds a change: none disconnects or
\* reconnects.
C34_ReloadStabilises == edits = 0 => op # "reload"

\* C38: when initialize has returned, every connection it opened is held as
\* the client of its server's entry.
C38_ConnectedClientHeldOrClosed ==
  InitializeConnected =>
    \A c \in connections :
      c.epoch = epoch =>
        c.server \in DOMAIN clients /\ clients[c.server].client

\* C39: the fingerprint initialize stored is the fingerprint of the content
\* the server map was built from.
C39_FingerprintOfLoadedContent ==
  InitializeConnected =>
    ~configHash.isNull /\ loadConfig(configHash.of) = config

\* C33: once every reloadIfNeeded call has returned, the map holds exactly
\* one entry per enabled server, every connection that was opened is held in
\* the map or closed, and no two open connections go to the same server.
C33_OverlappingReloadsConverge ==
  (\A t \in Callers : callers[t] = "returned") =>
    /\ DOMAIN serverMap = EnabledNames(loadedConfig)
    /\ \A c \in DOMAIN opened :
         opened[c] = "open" => c \in HeldConns(serverMap)
    /\ Cardinality({ c \in DOMAIN opened : opened[c] = "open" }) <= 1

\* C35: a callTool for a server that is enabled and connectable in the old
\* and the new config is neither refused as not found nor sent on a closed
\* client while a reload is in progress.
C35_DispatchDuringReload ==
  bridgeCall.reloading =>
    bridgeCall.outcome \notin {"SERVER_NOT_FOUND", "CLOSED_CLIENT"}

\* C36: once the deadline timer has fired and signalled the subprocess, run
\* returns a result, whatever the subprocess does with the signal and
\* whoever holds its output streams.
C36_RunReturnsAfterDeadline ==
  (pc = "exec_wait" /\ timer = "fired") ~> (pc = "done")

\* C37: the return value is the serialization of the user program's final
\* expression as the wrapper emitted it, whatever the user program printed,
\* and is absent when the final expression is undefined.
C37_ReturnValueIsFinalExpression ==
  cpc = "done" =>
    captured.returnValue =
      IF finalExpr = Undefined THEN Null ELSE Value(<< finalExpr >>)

\* The specifiers of a request that fail the format check, in request order.
RECURSIVE FailingFormat(_)
FailingFormat(deps) ==
  IF deps = << >> THEN << >>
  ELSE (IF isValidPackageSpecifier(Head(deps)) THEN << >> ELSE << Head(deps) >>)
       \o FailingFormat(Tail(deps))

\* C40: under the wildcard allowlist, invalid lists exactly the requested
\* specifiers that fail the format check, with one error for each; the
\* well-formed specifiers of the request are not in invalid.
C40_WildcardInvalidIsExact ==
  (vpc = "done" /\ allowedList.all) =>
    /\ validation.invalid = FailingFormat(dependencies)
    /\ Len(validation.errors) = Len(FailingFormat(dependencies))
    /\ \A i \in 1..Len(validation.errors) :
         /\ validation.errors[i].kind = "Invalid format"
         /\ validation.errors[i].dep = FailingFormat(dependencies)[i]

\* ========================================================== specifications

\* The Bridge before any request, with a Manager that holds no server.
BridgeIdle ==
  /\ authToken = "t1"
  /\ clients = << >>
  /\ bpc = "idle"
  /\ request = NoRequest
  /\ received = 0 /\ totalSize = 0 /\ bodyParts = << >>
  /\ managerCalls = << >>
  /\ response = NoReply

\* The Engine before any call.
EngineIdle ==
  /\ pc = "idle"
  /\ mcpFactoryCode = NoFactory
  /\ diskWrites = {}
  /\ options = [permissions |-> NoPerms, dependencies |-> << >>]
  /\ defaultRunArgs = << >>
  /\ runArgs = << >>
  /\ fs = {}
  /\ installProc = "none" /\ installCode = -1 /\ installTimer = "unset"
  /\ installArgs = << >> /\ installResult = NoInstall
  /\ process = "none" /\ exitCode = -1 /\ timer = "unset"
  /\ execArgs = << >> /\ success = TRUE /\ errorType = "runtime"
  /\ stdoutPipe = << >> /\ stderrPipe = << >>
  /\ stdoutRead = "idle" /\ stderrRead = "idle"
  /\ execResult = NoExec
  /\ result = NoResult

\* One run() call of the Execution Engine.
\* No output is being processed, no timeout resolved, no spec built, no
\* concurrent call made.
SideIdle == CaptureIdle /\ TimeoutIdle /\ BrokerIdle /\ OverlapIdle

Init == BridgeIdle /\ ManagerIdle /\ ValidatorIdle /\ SideIdle /\ EngineInit

Spec == Init /\ [][Next]_vars

\* The RPC Bridge serving requests.
InitBridge == BridgeInit /\ EngineIdle /\ ManagerIdle /\ ValidatorIdle /\ SideIdle

SpecBridge == InitBridge /\ [][BridgeNext]_vars


\* The Allowlist Validator applied to a request.
InitValidator == ValidatorInit /\ EngineIdle /\ BridgeIdle /\ ManagerIdle /\ SideIdle

SpecValidator == InitValidator /\ [][ValidatorNext]_vars

\* The Tool-Proxy Manager: initialize, reloads, config edits and dispatches.
InitManager == ManagerInit /\ BridgeIdle /\ EngineIdle /\ ValidatorIdle /\ SideIdle

SpecManager == InitManager /\ [][ManagerNext]_vars

\* The capture of one script's output.
StatefulIdle == EngineIdle /\ BridgeIdle /\ ManagerIdle /\ ValidatorIdle

InitCapture == CaptureInit /\ TimeoutIdle /\ BrokerIdle /\ OverlapIdle /\ StatefulIdle

SpecCapture == InitCapture /\ [][CaptureNext]_vars

\* The timeout of one run_deno_code call.
InitTimeout == TimeoutInit /\ CaptureIdle /\ BrokerIdle /\ OverlapIdle /\ StatefulIdle

SpecTimeout == InitTimeout /\ [][TimeoutNext]_vars

\* One build of a permission spec.
InitBroker == BrokerInit /\ CaptureIdle /\ TimeoutIdle /\ OverlapIdle /\ StatefulIdle

SpecBroker == InitBroker /\ [][BrokerNext]_vars

\* Phase 2 of one call, with the host's own steps taken whenever they stay
\* possible; nothing is assumed of the subprocess.
InitExec == ExecInit /\ BridgeIdle /\ ManagerIdle /\ ValidatorIdle /\ SideIdle

SpecExec == InitExec /\ [][ExecNext]_vars /\ WF_vars(HostStep)

\* reloadIfNeeded calls that overlap, a rewrite of the file and a dispatch.
InitOverlap ==
  OverlapInit /\ CaptureIdle /\ TimeoutIdle /\ BrokerIdle /\ StatefulIdle

SpecOverlap == InitOverlap /\ [][OverlapNext]_vars

====
